---- MODULE Spec2Model ----
(***************************************************************************)
(* UVS Dashboard (src/app.py): the weather cache, the moisture predictor,  *)
(* the critical-horizon estimator, the water optimiser and the             *)
(* recommendation engine, as state machines over the Streamlit session     *)
(* state.                                                                  *)
(*                                                                         *)
(* Units.  Time is in minutes since midnight of day 0; a calendar date is  *)
(* a day number.  Rainfall is in tenths of a millimetre (the code keeps    *)
(* one decimal: round(x, 1)).  Fractions are kept exact as [n, d] pairs;   *)
(* Python's round() is round-half-to-even.                                 *)
(***************************************************************************)
EXTENDS Integers, Sequences, FiniteSets, TLC

\* site_weather holds the snapshots get_site_weather caches (keys
\* "<site name>_<timestamp digits>"); site_weather_forecast holds the other
\* entries of the same dictionary, the raw forecasts under the keys
\* "<lat>_<lon>_sidebar" and "<lat>_<lon>_forecast"; the two key families
\* never meet.  selected_site is "" while the key is absent; confirm_delete
\* is the set of site ids whose confirm_delete_<id> flag is set.
VARIABLES sites, priority_thresholds, weather, weather_stations,
          site_weather, now, fetches, ret, callers, data_file, journal,
          weather_cache_time, site_weather_forecast, selected_site,
          confirm_delete

vars == <<sites, priority_thresholds, weather, weather_stations,
          site_weather, now, fetches, ret, callers, data_file, journal,
          weather_cache_time, site_weather_forecast, selected_site,
          confirm_delete>>

(***************************************************************************)
(* Bounds of the model.                                                    *)
(***************************************************************************)
MaxVisits == 6
MaxEngineVisits == 2
MaxTicks == 2
NumCallers == 2
MaxCalls == 3
MaxPredictVisits == 2

(***************************************************************************)
(* Arithmetic helpers.                                                     *)
(***************************************************************************)
MinutesPerDay == 1440
BucketMinutes == 10
TickMinutes == BucketMinutes \div 2

Max(a, b) == IF a >= b THEN a ELSE b
Min(a, b) == IF a <= b THEN a ELSE b

\* as Round, halves going up (floor(x + 0.5))
Round_half_up(n, d) == (2 * n + d) \div (2 * d)

\* Python 3 round(x) on the exact value n/d (d > 0): nearest integer, ties to even.
Round(n, d) ==
  LET q == n \div d
      r == n % d
  IN  IF 2 * r < d THEN q
      ELSE IF 2 * r > d THEN q + 1
      ELSE IF q % 2 = 0 THEN q ELSE q + 1

RECURSIVE SumSeq(_)
SumSeq(s) == IF s = <<>> THEN 0 ELSE Head(s) + SumSeq(Tail(s))

\* Python s[-n:]
LastN(s, n) == IF Len(s) <= n THEN s ELSE SubSeq(s, Len(s) - n + 1, Len(s))

\* Optional values (Python None)
None == [some |-> FALSE, v |-> 0]
Some(x) == [some |-> TRUE, v |-> x]

(***************************************************************************)
(* calc_water: the nominal volume.                                         *)
(***************************************************************************)
calc_water(site) ==
  site.trees * site.trees_litres + site.tubestock * site.tubestock_litres
    + site.turf_m2 * site.turf_litres

(***************************************************************************)
(* calculate_optimal_water.                                                *)
(***************************************************************************)
\* largest power of two <= n/d (n/d >= 1)
RECURSIVE Pow2Floor(_, _, _)
Pow2Floor(n, d, p) == IF 2 * p * d <= n THEN Pow2Floor(n, d, 2 * p) ELSE p

\* round(base_water * 0.85): the double 0.85 lies below 17/20 by 0.2 * 2^-53,
\* which never moves a product off an exact half, so ties go to even.
RoundTimes085(base_water) == Round(base_water * 85, 100)

\* round(base_water * 1.1): the double 1.1 lies above 11/10 by 0.4 * 2^-52; a
\* product that is exactly k + 1/2 stays there only while 0.8 * base_water does
\* not exceed the power of two below the product, and otherwise lands just
\* above the half and rounds up.
RoundTimes110(base_water) ==
  IF (base_water * 110) % 100 = 50
       /\ 8 * base_water > 10 * Pow2Floor(11 * base_water, 10, 1)
  THEN (base_water * 110) \div 100 + 1
  ELSE Round(base_water * 110, 100)

\* the loop of lines 343-350: positive consecutive deltas of recent_visits
RECURSIVE moisture_improvements(_, _)
moisture_improvements(recent_visits, i) ==
  IF i > Len(recent_visits) THEN <<>>
  ELSE LET improvement == recent_visits[i].moisture - recent_visits[i - 1].moisture
       IN  IF improvement > 0
           THEN <<improvement>> \o moisture_improvements(recent_visits, i + 1)
           ELSE moisture_improvements(recent_visits, i + 1)

\* as scaled_water, with the lower comparison inclusive (avg_improvement <= 5)
scaled_water_inclusive(base_water, imps) ==
  IF SumSeq(imps) <= 5 * Len(imps) THEN RoundTimes085(base_water)
  ELSE IF SumSeq(imps) > 15 * Len(imps) THEN RoundTimes110(base_water)
  ELSE base_water

\* as scaled_water, with the upper bar at 10 instead of 15
scaled_water_low_bar(base_water, imps) ==
  IF SumSeq(imps) < 5 * Len(imps) THEN RoundTimes085(base_water)
  ELSE IF SumSeq(imps) > 10 * Len(imps) THEN RoundTimes110(base_water)
  ELSE base_water

\* lines 353-362 for a non-empty list imps of improvements, whose average
\* is avg_improvement = SumSeq(imps) / Len(imps)
scaled_water(base_water, imps) ==
  IF SumSeq(imps) < 5 * Len(imps) THEN RoundTimes085(base_water)
  ELSE IF SumSeq(imps) > 15 * Len(imps) THEN RoundTimes110(base_water)
  ELSE base_water

calculate_optimal_water(site) ==
  LET base_water == calc_water(site)
  IN  IF Len(site.visits) < 3 THEN base_water
      ELSE LET recent_visits == LastN(site.visits, 5)
               imps == moisture_improvements(recent_visits, 2)
           IN  IF imps # <<>> THEN scaled_water(base_water, imps)
               ELSE base_water

(***************************************************************************)
(* Weather snapshots and the provider.                                     *)
(***************************************************************************)
Snapshot(l7, n24, n7) == [last_7d |-> l7, next_24h |-> n24, next_7d |-> n7]

\* st.session_state.weather when no saved weather exists (line 127)
DefaultWeather == Snapshot(125, 52, 183)

\* A missing daily value (JSON null)
Null == -1

\* What requests.get can do: raise, or return a response with a status and a
\* body; a body is the 'daily'/'current' part the code reads.
Body(hasDaily, hasCurrent, precip) ==
  [has_daily |-> hasDaily, has_current |-> hasCurrent, precipitation_sum |-> precip]
Response(kind, status, body) == [kind |-> kind, status_code |-> status, body |-> body]

NoBody == Body(FALSE, FALSE, <<>>)
DryBody == Body(TRUE, TRUE, <<0, 0, 0, 0, 0, 0, 0, 0, 0, 0, 0, 0, 0, 0>>)
WetBody == Body(TRUE, TRUE, <<100, 101, 0, Null, 0, 0, 0, 101, 20, 0, Null, 0, 0, 30>>)
StormBody == Body(TRUE, TRUE, <<500, 500, 500, 500, 500, 500, 500, 800, 0, 0, 0, 0, 0, 0>>)
MildBody == Body(TRUE, TRUE, <<0, 0, 60, 0, 0, 0, 0, 51, 0, 0, 0, 0, 0, 49>>)
ShortBody == Body(TRUE, TRUE, <<30, 0, 0, 0, 30, 0, 0>>)
NullTodayBody == Body(TRUE, TRUE, <<0, 0, 0, 0, 0, 0, 0, Null, 0, 0, 0, 0, 0, 0>>)
NoCurrentBody == Body(TRUE, FALSE, <<0, 0, 0, 0, 0, 0, 0, 0, 0, 0, 0, 0, 0, 0>>)

OkResponses ==
  { Response("response", 200, b) : b \in {DryBody, WetBody, StormBody, MildBody, ShortBody} }
FailResponses ==
  { Response("timeout", 0, NoBody), Response("connection_error", 0, NoBody),
    Response("response", 500, DryBody), Response("response", 200, NoBody),
    Response("response", 200, NullTodayBody), Response("response", 200, NoCurrentBody) }
Responses == OkResponses \cup FailResponses

\* the responses the session machine draws from
SessionOk == { Response("response", 200, b) : b \in {DryBody, WetBody} }
SessionFail ==
  { Response("timeout", 0, NoBody), Response("connection_error", 0, NoBody),
    Response("response", 500, DryBody), Response("response", 200, NoBody) }
SessionResponses == SessionOk \cup SessionFail
PairResponses == SessionOk \cup {Response("timeout", 0, NoBody)}
RefreshResponses == {Response("response", 200, WetBody), Response("timeout", 0, NoBody)}

\* sum([p for p in xs if p is not None])
RECURSIVE SumNotNull(_)
SumNotNull(xs) ==
  IF xs = <<>> THEN 0
  ELSE (IF Head(xs) = Null THEN 0 ELSE Head(xs)) + SumNotNull(Tail(xs))

\* Python xs[a:b] with 0 <= a <= b (0-based, end exclusive, clipped)
Slice(xs, a, b) == SubSeq(xs, a + 1, Min(b, Len(xs)))

\* Lines 179-197: the snapshot built from a 200 response, or the exception
\* raised on the way (KeyError on a missing field, TypeError on round(None)).
ParseForecast(body) ==
  IF ~body.has_daily THEN [ok |-> FALSE, data |-> DefaultWeather]
  ELSE LET ps == body.precipitation_sum
           last_7d == SumNotNull(Slice(ps, 0, 7))
           next_24h == IF Len(ps) > 7 THEN ps[8] ELSE 0
           next_7d == SumNotNull(Slice(ps, 7, 14))
       IN  IF ~body.has_current \/ next_24h = Null
           THEN [ok |-> FALSE, data |-> DefaultWeather]
           ELSE [ok |-> TRUE, data |-> Snapshot(last_7d, next_24h, next_7d)]

(***************************************************************************)
(* predict_moisture, given the snapshot sw get_site_weather returned.      *)
(***************************************************************************)
\* base.get(soil_type, 35)
baseline(soil_type) ==
  CASE soil_type = "Clay Loam" -> 40
    [] soil_type = "Sandy Loam" -> 25
    [] soil_type = "Loam" -> 35
    [] soil_type = "Clay" -> 45
    [] soil_type = "Sand" -> 15
    [] OTHER -> 35

\* twice daily_drop_rate.get(soil_type, 2.5)
drop_rate2(soil_type) ==
  CASE soil_type = "Clay Loam" -> 4
    [] soil_type = "Sandy Loam" -> 8
    [] soil_type = "Loam" -> 6
    [] soil_type = "Clay" -> 3
    [] soil_type = "Sand" -> 10
    [] OTHER -> 5

\* maturity_factors.get(maturity, 0)
maturity_adjustment(maturity) ==
  CASE maturity = "Establishment" -> -3
    [] maturity = "Young" -> -1
    [] maturity = "Mature" -> 2
    [] OTHER -> 0

\* as rain_adjustment, the forecast term only counted without lagged rain
rain_adjustment_exclusive(sw) ==
  IF sw.last_7d > 200 THEN 15
  ELSE IF sw.last_7d > 100 THEN 8
  ELSE IF sw.last_7d > 50 THEN 4
  ELSE IF sw.next_24h > 100 THEN 12
  ELSE IF sw.next_24h > 50 THEN 6
  ELSE 0

\* lines 247-259; rainfall in tenths of a millimetre
rain_adjustment(sw) ==
  (IF sw.last_7d > 200 THEN 15
   ELSE IF sw.last_7d > 100 THEN 8
   ELSE IF sw.last_7d > 50 THEN 4
   ELSE 0)
  + (IF sw.next_24h > 100 THEN 12
     ELSE IF sw.next_24h > 50 THEN 6
     ELSE 0)

Moistures(visits) == [i \in 1..Len(visits) |-> visits[i].moisture]

\* as days_since, counting the day that has begun
days_since_begun(date, t) == (t \div MinutesPerDay) - date + 1

\* (datetime.now() - last_visit_date).days: whole days, floored
days_since(date, t) == (t \div MinutesPerDay) - date

\* The value handed to round() in line 272, as the exact fraction n/d.
\* trend = sum(second half)/len - sum(first half)/len over the last 5 visits,
\* split at len // 2; with one visit the trend is 0.
predicted_with_visits(site, sw, t) ==
  LET recent_moistures == Moistures(LastN(site.visits, 5))
      mid_point == Len(recent_moistures) \div 2
      l1 == IF mid_point > 0 THEN mid_point ELSE 1
      l2 == Len(recent_moistures) - mid_point
      s1 == IF mid_point > 0 THEN SumSeq(SubSeq(recent_moistures, 1, mid_point))
            ELSE recent_moistures[1]
      s2 == SumSeq(SubSeq(recent_moistures, mid_point + 1, Len(recent_moistures)))
      hasTrend == Len(recent_moistures) >= 2
      d == IF hasTrend THEN 20 * l1 * l2 ELSE 20
      trend_factor_n == IF hasTrend THEN 6 * (s2 * l1 - s1 * l2) ELSE 0
      last == site.visits[Len(site.visits)]
      most_recent == last.moisture
      time_adjustment_n == -1 * (days_since(last.date, t) * drop_rate2(site.soil_type) * (d \div 2))
  IN  [n |-> (most_recent + rain_adjustment(sw)
                + maturity_adjustment(site.maturity)) * d
             + time_adjustment_n + trend_factor_n,
       d |-> d]

\* as predicted_no_visits, with the forecast amounts of the visit branch
predicted_no_visits_copied(site, sw) ==
  [n |-> 10 * baseline(site.soil_type) + 2 * sw.last_7d - 100
         + (IF sw.next_24h > 100 THEN 120
            ELSE IF sw.next_24h > 50 THEN 60 ELSE 0),
   d |-> 10]

\* The value handed to round() in line 283, as the exact fraction n/d.
predicted_no_visits(site, sw) ==
  [n |-> 10 * baseline(site.soil_type) + 2 * sw.last_7d - 100
         + (IF sw.next_24h > 100 THEN 150
            ELSE IF sw.next_24h > 50 THEN 80 ELSE 0),
   d |-> 10]

predicted(site, sw, t) ==
  IF Len(site.visits) > 0 THEN predicted_with_visits(site, sw, t)
  ELSE predicted_no_visits(site, sw)

\* as predict_moisture, without the upper clamp
predict_moisture_unclamped(site, sw, t) ==
  LET p == predicted(site, sw, t)
  IN  Max(0, Round(p.n, p.d))

predict_moisture(site, sw, t) ==
  LET p == predicted(site, sw, t)
  IN  Max(0, Min(100, Round(p.n, p.d)))

(***************************************************************************)
(* predict_days_until_critical, given the moisture predict_moisture        *)
(* returned and the snapshot sw2 of the second weather read (line 316).    *)
(***************************************************************************)
\* lines 302-311: (prev - curr) / days_between for each consecutive pair
\* with days_between > 0, as fractions
RECURSIVE moisture_drops(_, _)
moisture_drops(recent_visits, i) ==
  IF i > Len(recent_visits) THEN <<>>
  ELSE LET prev == recent_visits[i - 1]
           curr == recent_visits[i]
           days_between == curr.date - prev.date
       IN  IF days_between > 0
           THEN <<[n |-> prev.moisture - curr.moisture, d |-> days_between]>>
                  \o moisture_drops(recent_visits, i + 1)
           ELSE moisture_drops(recent_visits, i + 1)

RECURSIVE FracSum(_)
FracSum(fs) ==
  IF fs = <<>> THEN [n |-> 0, d |-> 1]
  ELSE LET r == FracSum(Tail(fs))
       IN  [n |-> Head(fs).n * r.d + r.n * Head(fs).d, d |-> Head(fs).d * r.d]

\* does the call reach the weather read of line 316
days_reads_weather(site, thresholds, current_moisture) ==
  /\ Len(site.visits) >= 2
  /\ current_moisture > thresholds.critical
  /\ moisture_drops(LastN(site.visits, 5), 2) # <<>>

\* as days_estimate, the forecast rain not slowing the drop
days_estimate_rain_ignored(site, thresholds, current_moisture, sw2) ==
  IF current_moisture <= thresholds.critical THEN Some(0)
  ELSE
    LET moisture_gap == current_moisture - thresholds.critical
        drops == IF Len(site.visits) >= 2
                 THEN moisture_drops(LastN(site.visits, 5), 2) ELSE <<>>
        total == FracSum(drops)
        avg_n == total.n
        avg_d == total.d * Len(drops)
    IN  IF drops # <<>> /\ avg_n > 0
        THEN Some(Max(0, Round(moisture_gap * avg_d, avg_n)))
        ELSE Some(Max(0, Round(moisture_gap * 2, drop_rate2(site.soil_type))))

\* lines 291-329: the estimate for a site with visits
days_estimate(site, thresholds, current_moisture, sw2) ==
  IF current_moisture <= thresholds.critical THEN Some(0)
  ELSE
    LET moisture_gap == current_moisture - thresholds.critical
        drops == IF Len(site.visits) >= 2
                 THEN moisture_drops(LastN(site.visits, 5), 2) ELSE <<>>
        total == FracSum(drops)
        \* avg_daily_drop = avg_n / avg_d, halved when next_7d > 10mm
        avg_n == total.n
        avg_d == total.d * Len(drops) * (IF sw2.next_7d > 100 THEN 2 ELSE 1)
    IN  IF drops # <<>> /\ avg_n > 0
        THEN Some(Max(0, Round(moisture_gap * avg_d, avg_n)))
        ELSE Some(Max(0, Round(moisture_gap * 2, drop_rate2(site.soil_type))))

\* as predict_days_until_critical, giving up below two visits
predict_days_until_critical_two_visits(site, thresholds, current_moisture, sw2) ==
  IF Len(site.visits) < 2 THEN None
  ELSE days_estimate(site, thresholds, current_moisture, sw2)

predict_days_until_critical(site, thresholds, current_moisture, sw2) ==
  IF Len(site.visits) = 0 THEN None
  ELSE days_estimate(site, thresholds, current_moisture, sw2)

(***************************************************************************)
(* get_recommendation, given the moisture predict_moisture returned and    *)
(* the snapshot sw2 of its own weather read (line 369).                    *)
(***************************************************************************)
\* as rain_note, the heavy-rain bar inclusive (rain >= 10)
rain_note_inclusive(rain) ==
  IF rain >= 100 THEN "heavy_rain_delay"
  ELSE IF rain > 50 THEN "moderate_rain_reduce"
  ELSE "none"

\* lines 394-397; rain in tenths of a millimetre
rain_note(rain) ==
  IF rain > 100 THEN "heavy_rain_delay"
  ELSE IF rain > 50 THEN "moderate_rain_reduce"
  ELSE "none"

Message(text, water, moisture, note, rain) ==
  [text |-> text, water |-> water, moisture |-> moisture, note |-> note, rain |-> rain]

\* as tier_of, with the medium band closed above (moisture <= medium)
tier_of_inclusive(moisture, thresholds) ==
  IF moisture < thresholds.critical THEN "HIGH"
  ELSE IF moisture <= thresholds.medium THEN "MEDIUM"
  ELSE IF moisture < thresholds.low THEN "LOW"
  ELSE "OPTIMAL"

\* lines 381-392
tier_of(moisture, thresholds) ==
  IF moisture < thresholds.critical THEN "HIGH"
  ELSE IF moisture < thresholds.medium THEN "MEDIUM"
  ELSE IF moisture < thresholds.low THEN "LOW"
  ELSE "OPTIMAL"

\* line 374
no_data(water) ==
  [priority |-> "NO DATA", msg |-> Message("no_readings", 0, None, "none", 0),
   moisture |-> None, water |-> water]

\* lines 376-398
with_data(thresholds, moisture, water, rain) ==
  LET tier == tier_of(moisture, thresholds)
      text == CASE tier = "HIGH" -> "critical_watering_needed"
                [] tier = "MEDIUM" -> "watering_recommended"
                [] tier = "LOW" -> "monitor_conditions"
                [] OTHER -> "soil_optimal"
      \* only the first two messages quote the volume
      shown == IF tier \in {"HIGH", "MEDIUM"} THEN water ELSE 0
      note == rain_note(rain)
  IN  [priority |-> tier,
       msg |-> Message(text, shown, Some(moisture), note,
                       IF note = "none" THEN 0 ELSE rain),
       moisture |-> Some(moisture), water |-> water]

\* as get_recommendation, with the rain note added before the no-visit return
get_recommendation_note_first(site, thresholds, moisture, sw2) ==
  LET water == calc_water(site)
      rain == sw2.next_24h
  IN  IF Len(site.visits) = 0
      THEN [no_data(water) EXCEPT !.msg.note = rain_note(rain)]
      ELSE with_data(thresholds, moisture, water, rain)

get_recommendation(site, thresholds, moisture, sw2) ==
  LET water == calc_water(site)
      rain == sw2.next_24h
  IN  IF Len(site.visits) = 0 THEN no_data(water)
      ELSE with_data(thresholds, moisture, water, rain)

(***************************************************************************)
(* get_site_weather.                                                       *)
(***************************************************************************)
MelbourneStation == [station_name |-> "Melbourne (Olympic Park)", bom_id |-> "086338"]

\* as cache_key, the site name left out of the key
cache_key_shared(site_name, t) == <<"", t \div BucketMinutes>>

\* as cache_key, with the first 10 timestamp digits: the hour ("Hourly cache")
cache_key_hourly(site_name, t) == <<site_name, t \div 60>>

\* f"{site_name}_{datetime.now().strftime('%Y%m%d%H%M')[:11]}": the name and
\* the first 11 of the 12 timestamp digits, i.e. the ten-minute bucket
cache_key(site_name, t) == <<site_name, t \div BucketMinutes>>

\* as CachePut, storing nothing
CachePut_evicting(cache, k, v) ==
  [x \in {y \in DOMAIN cache : y[1] # k[1]} \cup {k} |-> IF x = k THEN v ELSE cache[x]]

\* as CachePut, with nothing stored
CachePut_drop(cache, k, v) == cache

CachePut(cache, k, v) ==
  [x \in DOMAIN cache \cup {k} |-> IF x = k THEN v ELSE cache[x]]

\* lines 175-207 once the cache was missed: what the try block yields for a
\* provider response
FetchOutcome(resp) ==
  IF resp.kind # "response" THEN [ok |-> FALSE, data |-> DefaultWeather]
  ELSE IF resp.status_code # 200 THEN [ok |-> FALSE, data |-> DefaultWeather]
  ELSE ParseForecast(resp.body)

\* as Escapes, with only Timeout and ConnectionError caught
Escapes_narrow(resp) == resp.kind = "response" /\ resp.status_code = 200

\* does the exception raised for resp leave get_site_weather (line 205
\* catches Exception, so nothing does)
Escapes(resp) == FALSE

\* as get_site_weather, never consulting the cache
get_site_weather_no_cache(cache, default, stations, site_name, t, resp) ==
  LET station_info == IF site_name \in DOMAIN stations THEN stations[site_name]
                      ELSE MelbourneStation
      key == cache_key(site_name, t)
      out == FetchOutcome(resp)
  IN  IF out.ok
      THEN [value |-> [weather |-> out.data, station_info |-> station_info],
            cache |-> CachePut(cache, key, out.data),
            called |-> TRUE, raised |-> FALSE, src |-> "fetch", key |-> key]
      ELSE [value |-> [weather |-> default, station_info |-> station_info],
            cache |-> cache,
            called |-> TRUE, raised |-> Escapes(resp), src |-> "default", key |-> key]

\* as get_site_weather, the fallback snapshot cached like a fetched one
get_site_weather_caching_fallback(cache, default, stations, site_name, t, resp) ==
  LET station_info == IF site_name \in DOMAIN stations THEN stations[site_name]
                      ELSE MelbourneStation
      key == cache_key(site_name, t)
      out == FetchOutcome(resp)
  IN  IF key \in DOMAIN cache
      THEN [value |-> [weather |-> cache[key], station_info |-> station_info],
            cache |-> cache,
            called |-> FALSE, raised |-> FALSE, src |-> "cache", key |-> key]
      ELSE IF out.ok
      THEN [value |-> [weather |-> out.data, station_info |-> station_info],
            cache |-> CachePut(cache, key, out.data),
            called |-> TRUE, raised |-> FALSE, src |-> "fetch", key |-> key]
      ELSE [value |-> [weather |-> default, station_info |-> station_info],
            cache |-> CachePut(cache, key, default),
            called |-> TRUE, raised |-> Escapes(resp), src |-> "default", key |-> key]

\* The pair get_site_weather returns is value = (weather, station_info); the
\* other fields record what the call did: the cache it leaves, whether the
\* provider was called, whether an exception left the function, and where
\* the snapshot came from.
get_site_weather(cache, default, stations, site_name, t, resp) ==
  LET station_info == IF site_name \in DOMAIN stations THEN stations[site_name]
                      ELSE MelbourneStation
      key == cache_key(site_name, t)
      out == FetchOutcome(resp)
  IN  IF key \in DOMAIN cache
      THEN [value |-> [weather |-> cache[key], station_info |-> station_info],
            cache |-> cache,
            called |-> FALSE, raised |-> FALSE, src |-> "cache", key |-> key]
      ELSE IF out.ok
      THEN [value |-> [weather |-> out.data, station_info |-> station_info],
            cache |-> CachePut(cache, key, out.data),
            called |-> TRUE, raised |-> FALSE, src |-> "fetch", key |-> key]
      ELSE [value |-> [weather |-> default, station_info |-> station_info],
            cache |-> cache,
            called |-> TRUE, raised |-> Escapes(resp), src |-> "default", key |-> key]

(***************************************************************************)
(* Session state at start-up.                                              *)
(***************************************************************************)
Visit(date, moisture) == [date |-> date, moisture |-> moisture]

Site(name, soil_type, maturity, trees, trees_litres, tubestock, tubestock_litres, turf_m2, turf_litres, visits) ==
  [name |-> name, soil_type |-> soil_type, maturity |-> maturity,
   trees |-> trees, trees_litres |-> trees_litres,
   tubestock |-> tubestock, tubestock_litres |-> tubestock_litres,
   turf_m2 |-> turf_m2, turf_litres |-> turf_litres, visits |-> visits]

\* lines 94-117; dates are days of October 2024 (day 14 = 2024-10-14)
SeedSite ==
  Site("Collins Street Development", "Clay Loam", "Establishment",
       50, 200, 150, 5, 500, 10,
       <<Visit(14, 35), Visit(11, 32), Visit(9, 38)>>)

\* line 67 / 75 / 76
DefaultThresholds == [critical |-> 25, medium |-> 35, low |-> 45]

\* a second site as a saved data file holds it: no visits yet
YardSite == Site("Depot Yard", "Sand", "Mature", 2, 5, 0, 0, 0, 0, <<>>)

SeedSites == [id \in {"site_001"} |-> SeedSite]
SavedSites == [id \in {"site_001", "site_002"} |->
                 IF id = "site_001" THEN SeedSite ELSE YardSite]

\* load_weather_stations: the sheet assigns a station to the first site only
Stations ==
  [n \in {"Collins Street Development"} |->
     [station_name |-> "Melbourne Airport", bom_id |-> "086282"]]

EmptyMap == [x \in {} |-> 0]

\* 'selected_site' not in st.session_state
NoSelection == ""

Callers == 1..NumCallers
IdleCaller ==
  [pc |-> "idle", key |-> <<>>, data |-> DefaultWeather, fetched |-> FALSE]

NoRec == [priority |-> "", msg |-> Message("", 0, None, "none", 0),
          moisture |-> None, water |-> 0]

NoValue == [weather |-> DefaultWeather, station_info |-> MelbourneStation]

\* the record kept of the last call: its arguments, what it returned, where
\* its weather reads were served from, and whether it called the provider
\* for a site already fetched in the current window (refetch) or already
\* fetched successfully in it since the cache was last cleared (refetch_ok)
NoRet ==
  [op |-> "none", id |-> "", args |-> <<>>, t |-> 0,
   value |-> NoValue, resp |-> Response("none", 0, NoBody),
   weather |-> DefaultWeather, weather2 |-> DefaultWeather,
   src1 |-> "none", src2 |-> "none", prev_src1 |-> "none",
   raised |-> FALSE, moisture |-> None, days |-> None, water |-> 0,
   rec |-> NoRec, repeat |-> FALSE, refetch |-> FALSE, refetch_ok |-> FALSE,
   ok |-> FALSE]

NoFetches == [called |-> {}, ok |-> {}]

\* the ten-minute clock window an instant falls in
Window(t) == t \div BucketMinutes

\* one weather read of a handler: get_site_weather on the session state; f
\* collects the site names the provider has been called for in the current
\* window (called) and those it answered successfully since the cache was
\* last cleared (ok)
WeatherRead(cache, f, site_name, t, resp) ==
  LET g == get_site_weather(cache, weather, weather_stations, site_name, t, resp)
  IN  [g |-> g,
       fetches |-> [called |-> IF g.called THEN f.called \cup {site_name} ELSE f.called,
                    ok |-> IF g.src = "fetch" THEN f.ok \cup {site_name} ELSE f.ok],
       refetch |-> g.called /\ site_name \in f.called,
       refetch_ok |-> g.called /\ site_name \in f.ok]

\* uvs_data.json as save_data writes it (lines 78-86); exists is FALSE while
\* the file has never been written
save_data(ss, w, th, t) ==
  [exists |-> TRUE, sites |-> ss, weather |-> w, priority_thresholds |-> th,
   last_saved |-> t]

NoFile ==
  [exists |-> FALSE, sites |-> EmptyMap, weather |-> DefaultWeather,
   priority_thresholds |-> DefaultThresholds, last_saved |-> 0]

\* a file left by an earlier session
SavedFile(ss, th) == save_data(ss, DefaultWeather, th, 0)

\* load_data, lines 68-72: the thresholds of a saved file, an old 'low' key
\* becoming 'medium' and a missing 'low' becoming 45
load_thresholds(th) ==
  LET renamed == IF "low" \in DOMAIN th /\ "medium" \notin DOMAIN th
                 THEN [critical |-> th.critical, medium |-> th.low]
                 ELSE th
  IN  [critical |-> renamed.critical, medium |-> renamed.medium,
       low |-> IF "low" \in DOMAIN renamed THEN renamed.low ELSE 45]

\* load_data (lines 60-76) and the session start (lines 88-130): seeded
\* sites when none were saved
load_data(file) ==
  IF ~file.exists
  THEN [sites |-> SeedSites, weather |-> DefaultWeather,
        priority_thresholds |-> DefaultThresholds]
  ELSE [sites |-> IF file.sites = EmptyMap THEN SeedSites ELSE file.sites,
        weather |-> file.weather,
        priority_thresholds |-> load_thresholds(file.priority_thresholds)]

StartNow == 14 * MinutesPerDay + 5

Init ==
  /\ sites \in {SeedSites, SavedSites}
  /\ priority_thresholds = DefaultThresholds
  /\ weather = DefaultWeather
  /\ weather_stations = Stations
  /\ site_weather = EmptyMap
  /\ now = StartNow
  /\ fetches = NoFetches
  /\ ret = NoRet
  /\ callers = [c \in Callers |-> IdleCaller]
  /\ data_file = IF sites = SeedSites THEN NoFile ELSE SavedFile(sites, DefaultThresholds)
  /\ journal = <<>>
  /\ weather_cache_time = EmptyMap
  /\ site_weather_forecast = EmptyMap
  /\ selected_site = NoSelection
  /\ confirm_delete = {}

(***************************************************************************)
(* Operations.                                                             *)
(***************************************************************************)
\* the clock moves on
Tick ==
  /\ now + TickMinutes <= StartNow + MaxTicks * TickMinutes
  /\ now' = now + TickMinutes
  /\ fetches' = IF Window(now') = Window(now) THEN fetches ELSE NoFetches
  /\ UNCHANGED <<sites, priority_thresholds, weather, weather_stations,
                 site_weather, ret, callers, data_file, journal,
                 weather_cache_time, site_weather_forecast, selected_site, confirm_delete>>

\* line 711: the site card reads the site's weather
GetSiteWeather(id, resp) ==
  \E r \in {WeatherRead(site_weather, fetches, sites[id].name, now, resp)} :
    /\ site_weather' = r.g.cache
    /\ fetches' = r.fetches
    /\ ret' = [NoRet EXCEPT !.op = "get_site_weather", !.id = id, !.t = now,
                             !.args = <<sites[id].name>>,
                             !.value = r.g.value,
                             !.resp = IF r.g.called THEN resp ELSE NoRet.resp,
                             !.weather = r.g.value.weather, !.src1 = r.g.src,
                             !.raised = r.g.raised,
                             !.refetch = r.refetch, !.refetch_ok = r.refetch_ok]
    /\ UNCHANGED <<sites, priority_thresholds, weather, weather_stations, now, callers, data_file, journal,
                 weather_cache_time, site_weather_forecast, selected_site, confirm_delete>>

\* predict_moisture(site): one weather read (line 215)
PredictMoisture(id, resp) ==
  \E site \in {sites[id]} :
  \E r \in {WeatherRead(site_weather, fetches, site.name, now, resp)} :
    /\ site_weather' = r.g.cache
    /\ fetches' = r.fetches
    /\ ret' = [NoRet EXCEPT !.op = "predict_moisture", !.id = id, !.t = now,
                             !.args = <<site>>,
                             !.weather = r.g.value.weather, !.src1 = r.g.src,
                             !.raised = r.g.raised,
                             !.refetch = r.refetch, !.refetch_ok = r.refetch_ok,
                             !.moisture =
                               Some(predict_moisture(site, r.g.value.weather, now))]
    /\ UNCHANGED <<sites, priority_thresholds, weather, weather_stations, now, callers, data_file, journal,
                 weather_cache_time, site_weather_forecast, selected_site, confirm_delete>>

\* predict_days_until_critical(site): nothing is read for a site without
\* visits; otherwise predict_moisture's read, then the read of line 316 when
\* the averaged drop is computed
PredictDays(id, resp1, resp2) ==
  \E site \in {sites[id]} :
    IF Len(site.visits) = 0
    THEN /\ ret' = [NoRet EXCEPT !.op = "predict_days_until_critical", !.id = id,
                                  !.t = now, !.args = <<site, priority_thresholds>>,
                                  !.days = predict_days_until_critical(
                                             site, priority_thresholds, 0, weather)]
         /\ UNCHANGED <<sites, priority_thresholds, weather, weather_stations,
                        site_weather, now, fetches, callers, data_file, journal,
                 weather_cache_time, site_weather_forecast, selected_site, confirm_delete>>
    ELSE
      \E r1 \in {WeatherRead(site_weather, fetches, site.name, now, resp1)} :
      \E current_moisture \in {predict_moisture(site, r1.g.value.weather, now)} :
      \E reads2 \in {days_reads_weather(site, priority_thresholds, current_moisture)} :
      \E r2 \in {IF reads2
                  THEN WeatherRead(r1.g.cache, r1.fetches, site.name, now, resp2)
                  ELSE [r1 EXCEPT !.refetch = FALSE, !.refetch_ok = FALSE]} :
        /\ site_weather' = r2.g.cache
        /\ fetches' = r2.fetches
        /\ ret' = [NoRet EXCEPT !.op = "predict_days_until_critical", !.id = id,
                                 !.t = now, !.args = <<site, priority_thresholds>>,
                                 !.weather = r1.g.value.weather, !.src1 = r1.g.src,
                                 !.weather2 = IF reads2 THEN r2.g.value.weather
                                              ELSE DefaultWeather,
                                 !.src2 = IF reads2 THEN r2.g.src ELSE "none",
                                 !.raised = r1.g.raised \/ (reads2 /\ r2.g.raised),
                                 !.refetch = r1.refetch \/ r2.refetch,
                                 !.refetch_ok = r1.refetch_ok \/ r2.refetch_ok,
                                 !.moisture = Some(current_moisture),
                                 !.days = predict_days_until_critical(
                                            site, priority_thresholds, current_moisture,
                                            r2.g.value.weather)]
        /\ UNCHANGED <<sites, priority_thresholds, weather, weather_stations, now, callers, data_file, journal,
                 weather_cache_time, site_weather_forecast, selected_site, confirm_delete>>

\* as CalculateOptimalWater, the visit list put in date order in place
\* (site['visits'].reverse()) before the last five are taken
CalculateOptimalWater_in_place(id) ==
  \E reversed \in {[i \in 1..Len(sites[id].visits) |->
                      sites[id].visits[Len(sites[id].visits) + 1 - i]]} :
    /\ sites' = [sites EXCEPT ![id].visits = reversed]
    /\ ret' = [NoRet EXCEPT !.op = "calculate_optimal_water", !.id = id, !.t = now,
                            !.args = <<sites[id]>>,
                            !.water = calculate_optimal_water(sites'[id])]
    /\ UNCHANGED <<priority_thresholds, weather, weather_stations,
                   site_weather, now, fetches, callers, data_file, journal,
                 weather_cache_time, site_weather_forecast, selected_site, confirm_delete>>

\* calculate_optimal_water(site)
CalculateOptimalWater(id) ==
  /\ ret' = [NoRet EXCEPT !.op = "calculate_optimal_water", !.id = id, !.t = now,
                          !.args = <<sites[id]>>,
                          !.water = calculate_optimal_water(sites[id])]
  /\ UNCHANGED <<sites, priority_thresholds, weather, weather_stations,
                 site_weather, now, fetches, callers, data_file, journal,
                 weather_cache_time, site_weather_forecast, selected_site, confirm_delete>>

\* get_recommendation(site): predict_moisture's read (line 365), then its own
\* read (line 369)
GetRecommendation(id, resp1, resp2) ==
  \E site \in {sites[id]} :
  \E r1 \in {WeatherRead(site_weather, fetches, site.name, now, resp1)} :
  \E moisture \in {predict_moisture(site, r1.g.value.weather, now)} :
  \E r2 \in {WeatherRead(r1.g.cache, r1.fetches, site.name, now, resp2)} :
  \E args \in {<<site, priority_thresholds, now>>} :
  \E again \in {ret.op = "get_recommendation" /\ ret.args = args} :
    /\ site_weather' = r2.g.cache
    /\ fetches' = r2.fetches
    /\ ret' = [NoRet EXCEPT !.op = "get_recommendation", !.id = id, !.t = now,
                             !.args = args,
                             !.weather = r1.g.value.weather, !.src1 = r1.g.src,
                             !.weather2 = r2.g.value.weather, !.src2 = r2.g.src,
                             !.raised = r1.g.raised \/ r2.g.raised,
                             !.refetch = r1.refetch \/ r2.refetch,
                             !.refetch_ok = r1.refetch_ok \/ r2.refetch_ok,
                             !.moisture = Some(moisture),
                             !.rec = get_recommendation(site, priority_thresholds,
                                                        moisture, r2.g.value.weather),
                             !.repeat = again,
                             !.prev_src1 = IF again THEN ret.src1 ELSE "none"]
    /\ UNCHANGED <<sites, priority_thresholds, weather, weather_stations, now, callers, data_file, journal,
                 weather_cache_time, site_weather_forecast, selected_site, confirm_delete>>

\* update_weather (lines 400-436): a usable 200 response replaces the default
\* snapshot (line 419) and then save_data writes the file (line 427), inside
\* the same try; when the file cannot be written the error is caught at line
\* 435 and (False, "Error: ...") returned, the snapshot already replaced
update_weather(default, resp, writable) ==
  LET out == FetchOutcome(resp)
  IN  IF out.ok
      THEN [weather |-> out.data, success |-> writable, saved |-> writable]
      ELSE [weather |-> default, success |-> FALSE, saved |-> FALSE]

\* lines 622-632: the Refresh Weather button
RefreshWeather(resp, writable) ==
  LET u == update_weather(weather, resp, writable)
  IN  /\ site_weather' = EmptyMap
      /\ site_weather_forecast' = EmptyMap
      /\ weather_cache_time' = EmptyMap
      /\ weather' = u.weather
      /\ fetches' = [fetches EXCEPT !.ok = {}]
      /\ ret' = [NoRet EXCEPT !.op = "refresh_weather", !.t = now, !.resp = resp,
                               !.ok = u.success]
      /\ data_file' = IF u.saved
                      THEN save_data(sites, u.weather, priority_thresholds, now)
                      ELSE data_file
      /\ UNCHANGED <<sites, priority_thresholds, weather_stations, now, callers, journal,
                     selected_site, confirm_delete>>

Next ==
  \/ Tick
  \/ \E id \in DOMAIN sites, resp \in SessionResponses : GetSiteWeather(id, resp)
  \/ \E id \in DOMAIN sites, resp1, resp2 \in PairResponses :
       GetRecommendation(id, resp1, resp2)
  \/ \E resp \in RefreshResponses, writable \in BOOLEAN : RefreshWeather(resp, writable)

Spec == Init /\ [][Next]_vars

(***************************************************************************)
(* The water optimiser on its own: one site whose saved history is any     *)
(* sequence of up to MaxVisits visits on consecutive days.                 *)
(***************************************************************************)
WaterMoistures == {20, 24, 30, 45}

\* trees, litres per tree (no tube stock, no turf) besides the seeded site
WaterSites ==
  {SeedSite} \cup
  { Site("Trial Plot", "Loam", "Young", 1, l, 0, 0, 0, 0, <<>>) : l \in {10, 55} }

DailyVisits(ms) == [i \in 1..Len(ms) |-> Visit(i, ms[i])]

WaterHistories ==
  UNION { { DailyVisits(ms) : ms \in [1..n -> WaterMoistures] } : n \in 0..MaxVisits }

InitWater ==
  /\ \E s \in WaterSites, vs \in WaterHistories :
       sites = [id \in {"site_001"} |-> [s EXCEPT !.visits = vs]]
  /\ priority_thresholds = DefaultThresholds
  /\ weather = DefaultWeather
  /\ weather_stations = Stations
  /\ site_weather = EmptyMap
  /\ now = StartNow
  /\ fetches = NoFetches
  /\ ret = NoRet
  /\ callers = [c \in Callers |-> IdleCaller]
  /\ data_file = IF sites = SeedSites THEN NoFile ELSE SavedFile(sites, DefaultThresholds)
  /\ journal = <<>>
  /\ weather_cache_time = EmptyMap
  /\ site_weather_forecast = EmptyMap
  /\ selected_site = NoSelection
  /\ confirm_delete = {}

NextWater == \E id \in DOMAIN sites : CalculateOptimalWater(id)

SpecWater == InitWater /\ [][NextWater]_vars

(***************************************************************************)
(* The predictor, the horizon estimator and the recommendation engine on   *)
(* one site whose saved record is drawn from a pool: soil, maturity, up to *)
(* MaxEngineVisits visits (a month old, today, dated tomorrow),            *)
(* and the saved thresholds.                                               *)
(***************************************************************************)
EngineNow == 45 * MinutesPerDay + 7
EngineDay == EngineNow \div MinutesPerDay

EngineVisitPool ==
  { Visit(EngineDay - 30, 100), Visit(EngineDay, 35), Visit(EngineDay, 5),
    Visit(EngineDay + 1, 35), Visit(EngineDay, 100) }

EngineHistories ==
  UNION { [1..n -> EngineVisitPool] : n \in 0..MaxEngineVisits }

EngineSoils == {"Clay", "Sand", "Peat"}
EngineMaturities == {"Establishment", "Semi-mature"}

\* saved thresholds: the defaults, a custom triple, and what load_data makes
\* of a legacy file {'critical': 25, 'low': 50}
EngineThresholds ==
  { DefaultThresholds,
    [critical |-> 35, medium |-> 49, low |-> 62],
    [critical |-> 25, medium |-> 50, low |-> 45] }

\* the saved thresholds behind EngineThresholds
EngineSavedThresholds ==
  { DefaultThresholds,
    [critical |-> 35, medium |-> 49, low |-> 62],
    [critical |-> 25, low |-> 50] }

EngineResponses ==
  { Response("response", 200, DryBody), Response("response", 200, WetBody),
    Response("response", 200, StormBody), Response("timeout", 0, NoBody) }

InitEngine ==
  /\ \E soil \in EngineSoils, mat \in EngineMaturities, vs \in EngineHistories :
       sites = [id \in {"site_001"} |->
                  Site("Collins Street Development", soil, mat, 2, 5, 0, 0, 0, 0, vs)]
  /\ priority_thresholds \in EngineThresholds
  /\ weather = DefaultWeather
  /\ weather_stations = Stations
  /\ site_weather = EmptyMap
  /\ now = EngineNow
  /\ fetches = NoFetches
  /\ ret = NoRet
  /\ callers = [c \in Callers |-> IdleCaller]
  /\ \E th \in EngineSavedThresholds :
       /\ load_thresholds(th) = priority_thresholds
       /\ data_file = SavedFile(sites, th)
  /\ journal = <<>>
  /\ weather_cache_time = EmptyMap
  /\ site_weather_forecast = EmptyMap
  /\ selected_site = NoSelection
  /\ confirm_delete = {}

NextEngine ==
  \/ \E id \in DOMAIN sites, resp \in EngineResponses : PredictMoisture(id, resp)
  \/ \E id \in DOMAIN sites, resp1, resp2 \in EngineResponses :
       PredictDays(id, resp1, resp2)
  \/ \E id \in DOMAIN sites, resp1, resp2 \in EngineResponses :
       GetRecommendation(id, resp1, resp2)

SpecEngine == InitEngine /\ [][NextEngine]_vars

(***************************************************************************)
(* get_site_weather under concurrent callers: each caller runs the         *)
(* function once in three steps: the cache check, sending the provider     *)
(* request on a miss (lines 170-177, pc = "request" while the request is   *)
(* outstanding); the response arriving (lines 177-197); the store          *)
(* (line 200).  The function takes no lock.                                *)
(***************************************************************************)
CallerCheck(c, id) ==
  /\ callers[c].pc = "idle"
  /\ \E key \in {cache_key(sites[id].name, now)} :
       callers' = [callers EXCEPT ![c] =
                     IF key \in DOMAIN site_weather
                     THEN [pc |-> "done", key |-> key, data |-> site_weather[key],
                           fetched |-> FALSE]
                     ELSE [pc |-> "request", key |-> key, data |-> DefaultWeather,
                           fetched |-> FALSE]]
  /\ UNCHANGED <<sites, priority_thresholds, weather, weather_stations,
                 site_weather, now, fetches, ret, data_file, journal,
                 weather_cache_time, site_weather_forecast, selected_site, confirm_delete>>

CallerRequest(c, resp) ==
  /\ callers[c].pc = "request"
  /\ \E out \in {FetchOutcome(resp)} :
       callers' = [callers EXCEPT ![c] =
                     IF out.ok
                     THEN [@ EXCEPT !.pc = "store", !.data = out.data, !.fetched = TRUE]
                     ELSE [@ EXCEPT !.pc = "done", !.data = weather, !.fetched = TRUE]]
  /\ UNCHANGED <<sites, priority_thresholds, weather, weather_stations,
                 site_weather, now, fetches, ret, data_file, journal,
                 weather_cache_time, site_weather_forecast, selected_site, confirm_delete>>

CallerStore(c) ==
  /\ callers[c].pc = "store"
  /\ site_weather' = CachePut(site_weather, callers[c].key, callers[c].data)
  /\ callers' = [callers EXCEPT ![c].pc = "done"]
  /\ UNCHANGED <<sites, priority_thresholds, weather, weather_stations,
                 now, fetches, ret, data_file, journal,
                 weather_cache_time, site_weather_forecast, selected_site, confirm_delete>>

InitConc ==
  /\ sites = SavedSites
  /\ priority_thresholds = DefaultThresholds
  /\ weather = DefaultWeather
  /\ weather_stations = Stations
  /\ site_weather = EmptyMap
  /\ now = StartNow
  /\ fetches = NoFetches
  /\ ret = NoRet
  /\ callers = [c \in Callers |-> IdleCaller]
  /\ data_file = IF sites = SeedSites THEN NoFile ELSE SavedFile(sites, DefaultThresholds)
  /\ journal = <<>>
  /\ weather_cache_time = EmptyMap
  /\ site_weather_forecast = EmptyMap
  /\ selected_site = NoSelection
  /\ confirm_delete = {}

NextConc ==
  \/ Tick
  \/ \E c \in Callers, id \in DOMAIN sites : CallerCheck(c, id)
  \/ \E c \in Callers, resp \in Responses : CallerRequest(c, resp)
  \/ \E c \in Callers : CallerStore(c)

SpecConc == InitConc /\ [][NextConc]_vars

(***************************************************************************)
(* The Settings page: the threshold form, on a session started from a      *)
(* saved file, next to the engine calls of the dashboard.                  *)
(***************************************************************************)
\* as SubmitThresholds, with equal neighbours let through (> for >=)
SubmitThresholds_lenient(critical, medium, low) ==
  \E rejected \in {critical > medium \/ medium > low} :
  \E th \in {IF rejected THEN priority_thresholds
              ELSE [critical |-> critical, medium |-> medium, low |-> low]} :
    /\ priority_thresholds' = th
    /\ data_file' = IF rejected THEN data_file
                    ELSE save_data(sites, weather, th, now)
    /\ ret' = [NoRet EXCEPT !.op = "save_thresholds", !.t = now,
                             !.args = <<critical, medium, low>>,
                             !.ok = ~rejected]
    /\ UNCHANGED <<sites, weather, weather_stations, site_weather, now, fetches,
                   callers, journal,
                 weather_cache_time, site_weather_forecast, selected_site, confirm_delete>>

\* lines 1860-1869: the form's submit button with the three slider values
SubmitThresholds(critical, medium, low) ==
  \E rejected \in {critical >= medium \/ medium >= low} :
  \E th \in {IF rejected THEN priority_thresholds
              ELSE [critical |-> critical, medium |-> medium, low |-> low]} :
    /\ priority_thresholds' = th
    /\ data_file' = IF rejected THEN data_file
                    ELSE save_data(sites, weather, th, now)
    /\ ret' = [NoRet EXCEPT !.op = "save_thresholds", !.t = now,
                             !.args = <<critical, medium, low>>,
                             !.ok = ~rejected]
    /\ UNCHANGED <<sites, weather, weather_stations, site_weather, now, fetches,
                   callers, journal,
                 weather_cache_time, site_weather_forecast, selected_site, confirm_delete>>

\* slider positions (each slider runs over 0..100)
SliderValues == {0, 30, 45, 100}

\* thresholds as earlier versions and sessions saved them
SettingsSavedThresholds ==
  { DefaultThresholds,
    [critical |-> 25, low |-> 35],
    [critical |-> 25, low |-> 50],
    [critical |-> 20, medium |-> 30] }

SettingsFiles ==
  {NoFile} \cup { SavedFile(SavedSites, th) : th \in SettingsSavedThresholds }

SettingsResponses ==
  { Response("response", 200, DryBody), Response("timeout", 0, NoBody) }

InitSettings ==
  /\ data_file \in SettingsFiles
  /\ sites = load_data(data_file).sites
  /\ priority_thresholds = load_data(data_file).priority_thresholds
  /\ weather = load_data(data_file).weather
  /\ weather_stations = Stations
  /\ site_weather = EmptyMap
  /\ now = StartNow
  /\ fetches = NoFetches
  /\ ret = NoRet
  /\ callers = [c \in Callers |-> IdleCaller]
  /\ journal = <<>>
  /\ weather_cache_time = EmptyMap
  /\ site_weather_forecast = EmptyMap
  /\ selected_site = NoSelection
  /\ confirm_delete = {}

NextSettings ==
  \/ \E critical, medium, low \in SliderValues : SubmitThresholds(critical, medium, low)
  \/ \E id \in DOMAIN sites, resp \in SettingsResponses : PredictMoisture(id, resp)
  \/ \E id \in DOMAIN sites, resp \in SettingsResponses : PredictDays(id, resp, resp)
  \/ \E id \in DOMAIN sites : CalculateOptimalWater(id)
  \/ \E id \in DOMAIN sites, resp \in SettingsResponses : GetRecommendation(id, resp, resp)

SpecSettings == InitSettings /\ [][NextSettings]_vars

(***************************************************************************)
(* The weather cache over advancing time: two saved sites, get_site_weather *)
(* called up to MaxCalls times, every call entered in the journal with its  *)
(* site, station, time and where its result came from.                      *)
(***************************************************************************)
\* both sites listed in the stations sheet with the same nearest station
SharedStations ==
  [n \in {"Collins Street Development", "Depot Yard"} |->
     [station_name |-> "Melbourne Airport", bom_id |-> "086282"]]

CacheResponses ==
  { Response("response", 200, DryBody), Response("response", 200, WetBody),
    Response("timeout", 0, NoBody) }

\* get_site_weather(site['name']) with the call journalled
CacheGet(id, resp) ==
  /\ Len(journal) < MaxCalls
  /\ \E r \in {WeatherRead(site_weather, fetches, sites[id].name, now, resp)} :
       /\ site_weather' = r.g.cache
       /\ fetches' = r.fetches
       /\ ret' = [NoRet EXCEPT !.op = "get_site_weather", !.id = id, !.t = now,
                                !.args = <<sites[id].name>>,
                                !.value = r.g.value,
                                !.resp = IF r.g.called THEN resp ELSE NoRet.resp,
                                !.weather = r.g.value.weather, !.src1 = r.g.src,
                                !.raised = r.g.raised,
                                !.refetch = r.refetch, !.refetch_ok = r.refetch_ok]
       /\ journal' = Append(journal, [site |-> sites[id].name,
                                      station |-> r.g.value.station_info,
                                      t |-> now, src |-> r.g.src])
  /\ UNCHANGED <<sites, priority_thresholds, weather, weather_stations, now,
                 callers, data_file,
                 weather_cache_time, site_weather_forecast, selected_site, confirm_delete>>

InitCache ==
  /\ sites = SavedSites
  /\ priority_thresholds = DefaultThresholds
  /\ weather = DefaultWeather
  /\ weather_stations \in {Stations, SharedStations}
  /\ site_weather = EmptyMap
  /\ now = StartNow
  /\ fetches = NoFetches
  /\ ret = NoRet
  /\ callers = [c \in Callers |-> IdleCaller]
  /\ data_file = SavedFile(sites, DefaultThresholds)
  /\ journal = <<>>
  /\ weather_cache_time = EmptyMap
  /\ site_weather_forecast = EmptyMap
  /\ selected_site = NoSelection
  /\ confirm_delete = {}

NextCache ==
  \/ Tick
  \/ \E id \in DOMAIN sites, resp \in CacheResponses : CacheGet(id, resp)

SpecCache == InitCache /\ [][NextCache]_vars

(***************************************************************************)
(* The predictor and the horizon estimator over the soil and maturity      *)
(* tables, the rain thresholds and visit histories in and out of date      *)
(* order.                                                                  *)
(***************************************************************************)
\* <<soil, maturity>>: every soil of the table and one outside it, every
\* maturity of the table and one outside it
PredictProfiles ==
  { <<soil, "Semi-mature">> :
      soil \in {"Clay Loam", "Sandy Loam", "Loam", "Clay", "Sand", "Peat"} }
  \cup { <<"Sand", maturity>> : maturity \in {"Establishment", "Young", "Mature"} }

PredictVisitPool ==
  { Visit(EngineDay - 5, 30), Visit(EngineDay - 2, 20), Visit(EngineDay - 1, 40) }

\* histories of four visits and of more than the five the functions look at
LongHistories ==
  { << Visit(EngineDay - 7, 40), Visit(EngineDay - 5, 52), Visit(EngineDay - 5, 50),
       Visit(EngineDay - 1, 44) >>,
    << Visit(EngineDay - 12, 90), Visit(EngineDay - 10, 80), Visit(EngineDay - 8, 60),
       Visit(EngineDay - 6, 50), Visit(EngineDay - 4, 45), Visit(EngineDay - 3, 50),
       Visit(EngineDay - 2, 40) >>,
     << Visit(EngineDay - 9, 20), Visit(EngineDay - 6, 70), Visit(EngineDay - 5, 70),
       Visit(EngineDay - 4, 64), Visit(EngineDay - 2, 61), Visit(EngineDay, 61) >> }

PredictHistories ==
  UNION { [1..n -> PredictVisitPool] : n \in 0..MaxPredictVisits } \cup LongHistories

\* a payload with l7 over the past week, n24 today and later over the days after
RainBody(l7, n24, later) ==
  Body(TRUE, TRUE, <<l7, 0, 0, 0, 0, 0, 0, n24, later, 0, 0, 0, 0, 0>>)

\* rainfall around the thresholds of 5, 10 and 20 mm
RainPool ==
  { <<0, 0, 0>>, <<50, 0, 0>>, <<51, 0, 0>>, <<100, 0, 0>>, <<101, 0, 0>>,
    <<200, 0, 0>>, <<201, 0, 0>>, <<0, 50, 0>>, <<0, 51, 0>>, <<0, 100, 0>>,
    <<0, 101, 0>>, <<201, 101, 0>>, <<51, 51, 0>>, <<0, 0, 100>>, <<0, 0, 101>> }

PredictResponses ==
  { Response("response", 200, RainBody(r[1], r[2], r[3])) : r \in RainPool }
  \cup { Response("timeout", 0, NoBody) }

InitPredict ==
  /\ \E profile \in PredictProfiles, vs \in PredictHistories :
       sites = [id \in {"site_001"} |->
                  Site("Collins Street Development", profile[1], profile[2],
                       2, 5, 0, 0, 0, 0, vs)]
  /\ priority_thresholds = DefaultThresholds
  /\ weather = DefaultWeather
  /\ weather_stations = Stations
  /\ site_weather = EmptyMap
  /\ now = EngineNow
  /\ fetches = NoFetches
  /\ ret = NoRet
  /\ callers = [c \in Callers |-> IdleCaller]
  /\ data_file = SavedFile(sites, DefaultThresholds)
  /\ journal = <<>>
  /\ weather_cache_time = EmptyMap
  /\ site_weather_forecast = EmptyMap
  /\ selected_site = NoSelection
  /\ confirm_delete = {}

NextPredict ==
  \/ \E id \in DOMAIN sites, resp \in PredictResponses : PredictMoisture(id, resp)
  \/ \E id \in DOMAIN sites, resp \in PredictResponses : PredictDays(id, resp, resp)
  \/ \E id \in DOMAIN sites, resp \in PredictResponses : GetRecommendation(id, resp, resp)

SpecPredict == InitPredict /\ [][NextPredict]_vars

(***************************************************************************)
(* The site details view and its Add Visit form.                           *)
(***************************************************************************)
MaxAddedVisits == 2
MaxReadings == 2

\* a visit as the Add Visit form stores it (lines 1001-1010): the seeded
\* visits carry no 'moisture_readings'
FormVisit(date, moisture, moisture_readings) ==
  [date |-> date, moisture |-> moisture, moisture_readings |-> moisture_readings]

\* one "Reading i" row of the form (lines 974-978): location is "" when the
\* text input was left empty
ReadingRow(location, moisture) == [location |-> location, moisture |-> moisture]

\* lines 979-983: the rows with a location, without the others
LabelledReadings(rows) == SelectSeq(rows, LAMBDA r : r.location # "")

ReadingMoistures(readings) == [i \in 1..Len(readings) |-> readings[i].moisture]

\* as visit_moisture, halves going up (int(avg_moisture + 0.5))
visit_moisture_half_up(readings) ==
  (2 * SumSeq(ReadingMoistures(readings)) + Len(readings)) \div (2 * Len(readings))

\* lines 999-1004: round(sum(moistures) / len(moisture_readings))
visit_moisture(readings) ==
  Round(SumSeq(ReadingMoistures(readings)), Len(readings))

\* the visits entered through the form, over all sites
AddedVisits(ss) ==
  { <<id, i>> \in UNION { {id} \X (1..Len(ss[id].visits)) : id \in DOMAIN ss } :
      "moisture_readings" \in DOMAIN ss[id].visits[i] }

\* lines 865-867 (and 1117, 1153): View Full Details on a site card
ViewDetails(id) ==
  /\ selected_site' = id
  /\ ret' = [NoRet EXCEPT !.op = "view_details", !.id = id, !.t = now]
  /\ UNCHANGED <<sites, priority_thresholds, weather, weather_stations,
                 site_weather, now, fetches, callers, data_file, journal,
                 weather_cache_time, site_weather_forecast, confirm_delete>>

\* lines 869-879: the overview page with a selected site looks the site up;
\* sites[selected_site] raises KeyError for an id that is not there
SiteDetails ==
  /\ selected_site # NoSelection
  /\ ret' = [NoRet EXCEPT !.op = "site_details", !.id = selected_site, !.t = now,
                          !.raised = selected_site \notin DOMAIN sites]
  /\ UNCHANGED <<sites, priority_thresholds, weather, weather_stations,
                 site_weather, now, fetches, callers, data_file, journal,
                 weather_cache_time, site_weather_forecast, selected_site,
                 confirm_delete>>

\* lines 881-883: Back to Overview, a button of the details view
BackToOverview ==
  /\ selected_site \in DOMAIN sites
  /\ selected_site' = NoSelection
  /\ ret' = [NoRet EXCEPT !.op = "back_to_overview", !.id = selected_site, !.t = now]
  /\ UNCHANGED <<sites, priority_thresholds, weather, weather_stations,
                 site_weather, now, fetches, callers, data_file, journal,
                 weather_cache_time, site_weather_forecast, confirm_delete>>

\* lines 956-1013: the Add Visit form of the details view, submitted with a
\* date and the reading rows
AddVisit(visit_date, rows) ==
  /\ selected_site \in DOMAIN sites
  /\ Cardinality(AddedVisits(sites)) < MaxAddedVisits
  /\ \E moisture_readings \in {LabelledReadings(rows)} :
       IF moisture_readings = <<>>
       THEN /\ ret' = [NoRet EXCEPT !.op = "add_visit", !.id = selected_site,
                                    !.t = now, !.args = <<visit_date, rows>>,
                                    !.ok = FALSE]
            /\ UNCHANGED <<sites, data_file>>
       ELSE /\ sites' = [sites EXCEPT ![selected_site].visits =
                           Append(@, FormVisit(visit_date,
                                               visit_moisture(moisture_readings),
                                               moisture_readings))]
            /\ data_file' = save_data(sites', weather, priority_thresholds, now)
            /\ ret' = [NoRet EXCEPT !.op = "add_visit", !.id = selected_site,
                                    !.t = now, !.args = <<visit_date, rows>>,
                                    !.ok = TRUE]
  /\ UNCHANGED <<priority_thresholds, weather, weather_stations,
                 site_weather, now, fetches, callers, journal,
                 weather_cache_time, site_weather_forecast, selected_site,
                 confirm_delete>>

ReadingRows ==
  UNION { [1..n -> { ReadingRow("", 40), ReadingRow("North corner", 36),
                      ReadingRow("Main entrance", 37) }] : n \in 1..MaxReadings }

NextVisits ==
  \/ \E id \in DOMAIN sites : ViewDetails(id)
  \/ SiteDetails
  \/ BackToOverview
  \* the dates the form is submitted with: before the oldest seeded visit and
  \* after the newest (days of October 2024)
  \/ \E visit_date \in {8, 15}, rows \in ReadingRows : AddVisit(visit_date, rows)

SpecVisits == Init /\ [][NextVisits]_vars

(***************************************************************************)
(* The forecast lookups of the sidebar station panel (lines 541-577) and   *)
(* of the site cards (lines 713-747).                                      *)
(***************************************************************************)
MaxWaits == 2

ForecastTTLMinutes == 2 * 60

\* f"{lat}_{lon}_sidebar" / f"{lat}_{lon}_forecast": the stations sheet gives
\* every station its own coordinates, so the station stands for them
forecast_key(station_info, suffix) == <<station_info.bom_id, suffix>>

\* as forecast_fresh, an entry of exactly two hours still served
forecast_fresh_inclusive(t, cache_time) == t - cache_time <= ForecastTTLMinutes

\* lines 557-558 / 727-728: time_diff < 2, time_diff the hours since cache_time
forecast_fresh(t, cache_time) == t - cache_time < ForecastTTLMinutes

\* lines 553-577 / 723-747: the cached forecast if there is a fresh one, else
\* a provider call, whose payload is cached with its time on status 200
forecast_lookup(cache, times, key, t, resp) ==
  IF key \in DOMAIN cache /\ key \in DOMAIN times /\ forecast_fresh(t, times[key])
  THEN [has_data |-> TRUE, data |-> cache[key], cache |-> cache, times |-> times,
        called |-> FALSE, src |-> "cache"]
  ELSE IF resp.kind = "response" /\ resp.status_code = 200
  THEN [has_data |-> TRUE, data |-> resp.body,
        cache |-> CachePut(cache, key, resp.body),
        times |-> CachePut(times, key, t),
        called |-> TRUE, src |-> "fetch"]
  ELSE [has_data |-> FALSE, data |-> NoBody, cache |-> cache, times |-> times,
        called |-> TRUE, src |-> "unavailable"]

\* lines 576 / 750: data['daily'] raises KeyError on a payload without it
forecast_raises(l) == l.has_data /\ ~l.data.has_daily

\* lines 524-538: the stations of the sites that have one, else Melbourne
unique_stations(ss, stations) ==
  LET assigned == { stations[ss[id].name] :
                      id \in { i \in DOMAIN ss : ss[i].name \in DOMAIN stations } }
  IN  IF assigned = {} THEN {MelbourneStation} ELSE assigned

\* the clock moves on by some minutes
Wait(minutes) ==
  /\ now + minutes <= StartNow + MaxWaits * (ForecastTTLMinutes \div 2 + 1)
  /\ now' = now + minutes
  /\ fetches' = IF Window(now') = Window(now) THEN fetches ELSE NoFetches
  /\ ret' = [NoRet EXCEPT !.op = "wait", !.t = now']
  /\ UNCHANGED <<sites, priority_thresholds, weather, weather_stations,
                 site_weather, callers, data_file, journal,
                 weather_cache_time, site_weather_forecast, selected_site,
                 confirm_delete>>

\* lines 541-577: one station of the sidebar panel
SidebarStation(station_info, resp) ==
  \E key \in {forecast_key(station_info, "sidebar")} :
  \E l \in {forecast_lookup(site_weather_forecast, weather_cache_time, key, now, resp)} :
    /\ site_weather_forecast' = l.cache
    /\ weather_cache_time' = l.times
    /\ ret' = [NoRet EXCEPT !.op = "sidebar_station", !.t = now, !.args = <<key>>,
                            !.resp = IF l.called THEN resp ELSE NoRet.resp,
                            !.src2 = l.src, !.raised = forecast_raises(l)]
    /\ UNCHANGED <<sites, priority_thresholds, weather, weather_stations,
                   site_weather, now, fetches, callers, data_file, journal,
                   selected_site, confirm_delete>>

\* lines 711-750: a site card reads the site's weather, then looks up the
\* seven-day forecast of the site's station
SiteCard(id, resp1, resp2) ==
  \E r \in {WeatherRead(site_weather, fetches, sites[id].name, now, resp1)} :
  \E key \in {forecast_key(r.g.value.station_info, "forecast")} :
  \E l \in {forecast_lookup(site_weather_forecast, weather_cache_time, key, now, resp2)} :
    /\ site_weather' = r.g.cache
    /\ fetches' = r.fetches
    /\ site_weather_forecast' = l.cache
    /\ weather_cache_time' = l.times
    /\ ret' = [NoRet EXCEPT !.op = "site_card", !.id = id, !.t = now,
                            !.args = <<key>>,
                            !.value = r.g.value,
                            !.weather = r.g.value.weather, !.src1 = r.g.src,
                            !.refetch = r.refetch, !.refetch_ok = r.refetch_ok,
                            !.resp = IF l.called THEN resp2 ELSE NoRet.resp,
                            !.src2 = l.src,
                            !.raised = r.g.raised \/ forecast_raises(l)]
    /\ UNCHANGED <<sites, priority_thresholds, weather, weather_stations,
                   now, callers, data_file, journal, selected_site, confirm_delete>>

ForecastResponses ==
  { Response("response", 200, DryBody), Response("response", 200, WetBody),
    Response("response", 500, DryBody), Response("timeout", 0, NoBody) }

InitForecast ==
  /\ sites = SeedSites
  /\ priority_thresholds = DefaultThresholds
  /\ weather = DefaultWeather
  /\ weather_stations \in {Stations, EmptyMap}
  /\ site_weather = EmptyMap
  /\ now = StartNow
  /\ fetches = NoFetches
  /\ ret = NoRet
  /\ callers = [c \in Callers |-> IdleCaller]
  /\ data_file = SavedFile(sites, DefaultThresholds)
  /\ journal = <<>>
  /\ weather_cache_time = EmptyMap
  /\ site_weather_forecast = EmptyMap
  /\ selected_site = NoSelection
  /\ confirm_delete = {}

NextForecast ==
  \* a minute less than an hour, a minute more
  \/ \E minutes \in {ForecastTTLMinutes \div 2 - 1, ForecastTTLMinutes \div 2 + 1} :
       Wait(minutes)
  \/ \E station_info \in unique_stations(sites, weather_stations),
        resp \in ForecastResponses : SidebarStation(station_info, resp)
  \/ \E id \in DOMAIN sites, resp1 \in RefreshResponses, resp2 \in ForecastResponses :
       SiteCard(id, resp1, resp2)
  \/ \E resp \in RefreshResponses, writable \in BOOLEAN : RefreshWeather(resp, writable)

SpecForecast == InitForecast /\ [][NextForecast]_vars

(***************************************************************************)
(* The three functions that round, on sites whose unrounded values fall on *)
(* and off the half: 38.5 and 39.5 % predicted, 2.5 and 3.5 days, and      *)
(* nominal volumes whose 0.85 and 1.10 multiples end in .5.                *)
(***************************************************************************)
RoundHistories ==
  { <<>>,
    << Visit(EngineDay - 1, 40) >>, << Visit(EngineDay - 1, 41) >>,
    << Visit(EngineDay, 30) >>, << Visit(EngineDay, 32) >>,
    << Visit(EngineDay - 3, 40), Visit(EngineDay - 2, 42), Visit(EngineDay - 1, 41) >>,
    << Visit(EngineDay - 3, 20), Visit(EngineDay - 2, 40), Visit(EngineDay - 1, 39) >>,
    << Visit(EngineDay - 4, 30), Visit(EngineDay - 3, 40), Visit(EngineDay - 2, 50),
       Visit(EngineDay - 1, 50) >> }

RoundResponses == {Response("response", 200, DryBody), Response("timeout", 0, NoBody)}

InitRound ==
  \* number of trees at 5 litres each: nominal volumes 5 to 95 litres
  /\ \E soil \in {"Clay", "Clay Loam"}, trees \in {1, 2, 3, 4, 6, 19}, vs \in RoundHistories :
       sites = [id \in {"site_001"} |->
                  Site("Collins Street Development", soil, "Semi-mature",
                       trees, 5, 0, 0, 0, 0, vs)]
  /\ priority_thresholds = DefaultThresholds
  /\ weather = DefaultWeather
  /\ weather_stations = Stations
  /\ site_weather = EmptyMap
  /\ now = EngineNow
  /\ fetches = NoFetches
  /\ ret = NoRet
  /\ callers = [c \in Callers |-> IdleCaller]
  /\ data_file = SavedFile(sites, DefaultThresholds)
  /\ journal = <<>>
  /\ weather_cache_time = EmptyMap
  /\ site_weather_forecast = EmptyMap
  /\ selected_site = NoSelection
  /\ confirm_delete = {}

NextRound ==
  \/ \E id \in DOMAIN sites, resp \in RoundResponses : PredictMoisture(id, resp)
  \/ \E id \in DOMAIN sites, resp \in RoundResponses : PredictDays(id, resp, resp)
  \/ \E id \in DOMAIN sites : CalculateOptimalWater(id)

SpecRound == InitRound /\ [][NextRound]_vars

(***************************************************************************)
(* Registering and removing sites: the Add Site form, the spreadsheet      *)
(* import, the delete buttons of the site cards, the backup import and     *)
(* Clear All Data, with the details view open or closed.                   *)
(***************************************************************************)
MaxSites == 3
MaxRows == 2

\* f"site_{n:03d}"
SiteId(n) == <<"site_001", "site_002", "site_003", "site_004", "site_005", "site_006">>[n]

\* lines 1799 / 1915: the id given to a new site
next_site_id(ss) == SiteId(Cardinality(DOMAIN ss) + 1)

\* lines 1800-1806 / 1916-1934 with the vegetation left at the form's
\* defaults: no plants yet, 200, 5 and 10 litres per unit, no visits
NewSite(name) == Site(name, "Clay Loam", "Establishment", 0, 200, 0, 5, 0, 10, <<>>)

\* st.session_state.sites[site_id] = {...}
SitePut(ss, id, site) ==
  [x \in DOMAIN ss \cup {id} |-> IF x = id THEN site ELSE ss[x]]

\* lines 1797-1809: the Add Site form submitted
AddSite(name, location, po) ==
  /\ Cardinality(DOMAIN sites) < MaxSites
  /\ IF name # "" /\ location # "" /\ po # ""
     THEN /\ sites' = SitePut(sites, next_site_id(sites), NewSite(name))
          /\ data_file' = save_data(sites', weather, priority_thresholds, now)
          /\ ret' = [NoRet EXCEPT !.op = "add_site", !.id = next_site_id(sites),
                                  !.t = now, !.args = <<name, location, po>>,
                                  !.ok = TRUE]
     ELSE /\ ret' = [NoRet EXCEPT !.op = "add_site", !.t = now,
                                  !.args = <<name, location, po>>, !.ok = FALSE]
          /\ UNCHANGED <<sites, data_file>>
  /\ UNCHANGED <<priority_thresholds, weather, weather_stations,
                 site_weather, now, fetches, callers, journal,
                 weather_cache_time, site_weather_forecast, selected_site,
                 confirm_delete>>

\* lines 1909-1935: the loop over the rows of the sheet, a row being its
\* 'Site Name' cell ("" for an empty one, which is skipped)
RECURSIVE import_rows(_, _)
import_rows(ss, rows) ==
  IF rows = <<>> THEN ss
  ELSE IF Head(rows) = "" THEN import_rows(ss, Tail(rows))
  ELSE import_rows(SitePut(ss, next_site_id(ss), NewSite(Head(rows))), Tail(rows))

\* lines 1908-1941: Import All Sites
ImportSites(rows) ==
  /\ Cardinality(DOMAIN sites) + Len(rows) <= MaxSites
  /\ sites' = import_rows(sites, rows)
  /\ data_file' = save_data(sites', weather, priority_thresholds, now)
  /\ ret' = [NoRet EXCEPT !.op = "import_sites", !.t = now, !.args = <<rows>>,
                          !.ok = TRUE]
  /\ UNCHANGED <<priority_thresholds, weather, weather_stations,
                 site_weather, now, fetches, callers, journal,
                 weather_cache_time, site_weather_forecast, selected_site,
                 confirm_delete>>

\* lines 677-679: the delete button of a site card
ClickDelete(id) ==
  /\ confirm_delete' = confirm_delete \cup {id}
  /\ ret' = [NoRet EXCEPT !.op = "click_delete", !.id = id, !.t = now]
  /\ UNCHANGED <<sites, priority_thresholds, weather, weather_stations,
                 site_weather, now, fetches, callers, data_file, journal,
                 weather_cache_time, site_weather_forecast, selected_site>>

\* lines 682-690: "Yes, Delete" under the card of a site whose flag is set
ConfirmDelete(id) ==
  /\ id \in confirm_delete
  /\ sites' = [x \in DOMAIN sites \ {id} |-> sites[x]]
  /\ confirm_delete' = confirm_delete \ {id}
  /\ data_file' = save_data(sites', weather, priority_thresholds, now)
  /\ ret' = [NoRet EXCEPT !.op = "confirm_delete", !.id = id, !.t = now, !.ok = TRUE]
  /\ UNCHANGED <<priority_thresholds, weather, weather_stations,
                 site_weather, now, fetches, callers, journal,
                 weather_cache_time, site_weather_forecast, selected_site>>

\* lines 692-694: "Cancel"
CancelDelete(id) ==
  /\ id \in confirm_delete
  /\ confirm_delete' = confirm_delete \ {id}
  /\ ret' = [NoRet EXCEPT !.op = "cancel_delete", !.id = id, !.t = now]
  /\ UNCHANGED <<sites, priority_thresholds, weather, weather_stations,
                 site_weather, now, fetches, callers, data_file, journal,
                 weather_cache_time, site_weather_forecast, selected_site>>

\* a backup file: unreadable, or a JSON object whose 'sites' value (the
\* object itself when it has no such key, as in the exported backups) is
\* taken for the sites, with or without a 'weather' key
Backup(valid, ss, has_weather, w) ==
  [valid |-> valid, sites |-> ss, has_weather |-> has_weather, weather |-> w]

\* lines 1952-1962: Import Data
ImportData(imported) ==
  /\ IF imported.valid
     THEN /\ sites' = imported.sites
          /\ weather' = IF imported.has_weather THEN imported.weather ELSE weather
          /\ data_file' = save_data(sites', weather', priority_thresholds, now)
     ELSE UNCHANGED <<sites, weather, data_file>>
  /\ ret' = [NoRet EXCEPT !.op = "import_data", !.t = now, !.ok = imported.valid]
  /\ UNCHANGED <<priority_thresholds, weather_stations,
                 site_weather, now, fetches, callers, journal,
                 weather_cache_time, site_weather_forecast, selected_site,
                 confirm_delete>>

\* lines 1966-1974: Clear All Data
ClearAllData ==
  /\ sites' = EmptyMap
  /\ data_file' = save_data(sites', weather, priority_thresholds, now)
  /\ ret' = [NoRet EXCEPT !.op = "clear_all_data", !.t = now, !.ok = TRUE]
  /\ UNCHANGED <<priority_thresholds, weather, weather_stations,
                 site_weather, now, fetches, callers, journal,
                 weather_cache_time, site_weather_forecast, selected_site,
                 confirm_delete>>

NextSites ==
  \/ \E name, location, po \in {"", "Riverside Park"} : AddSite(name, location, po)
  \/ \E rows \in UNION { [1..n -> {"", "Harbour Walk"}] : n \in 1..MaxRows } :
       ImportSites(rows)
  \/ \E id \in DOMAIN sites : ClickDelete(id)
  \/ \E id \in DOMAIN sites : ConfirmDelete(id)
  \/ \E id \in DOMAIN sites : CancelDelete(id)
  \/ \E id \in DOMAIN sites : ViewDetails(id)
  \/ SiteDetails
  \/ BackToOverview
  \/ \E imported \in { Backup(FALSE, EmptyMap, FALSE, DefaultWeather),
                        Backup(TRUE, SeedSites, FALSE, DefaultWeather),
                        Backup(TRUE, SavedSites, TRUE, Snapshot(0, 0, 0)) } :
       ImportData(imported)
  \/ ClearAllData

SpecSites == Init /\ [][NextSites]_vars

(***************************************************************************)
(* Properties.                                                             *)
(***************************************************************************)
Nominal(s) ==
  s.trees * s.trees_litres + s.tubestock * s.tubestock_litres + s.turf_m2 * s.turf_litres

Ascending(th) == th.critical < th.medium /\ th.medium < th.low

\* w is a nearest integer to n/d
Nearest(w, n, d) == 2 * (w * d - n) <= d /\ 2 * (n - w * d) <= d

\* C1: predict_moisture returns an integer in [0,100] for every site (any
\* visit history, soil, maturity, age of the last visit, also a future-dated
\* one) and every weather snapshot with non-negative rainfall.
C1_MoistureInRange ==
  ret.op = "predict_moisture" =>
    ret.moisture.some /\ ret.moisture.v \in 0..100

\* the unclamped prediction lies above 100 and the call returned 100
C1_Witness ==
  /\ ret.op = "predict_moisture"
  /\ LET p == predicted(ret.args[1], ret.weather, ret.t) IN p.n > 100 * p.d
  /\ ret.moisture = Some(100)

\* C2: for a site with visits and thresholds critical < medium < low,
\* get_recommendation returns High exactly when moisture < critical, Medium
\* exactly when critical <= moisture < medium, Low exactly when
\* medium <= moisture < low and Optimal exactly when moisture >= low; with
\* 25/35/45 a moisture of exactly 35 gives Low.
C2_TierBands ==
  (ret.op = "get_recommendation" /\ Len(ret.args[1].visits) >= 1
     /\ Ascending(ret.args[2])) =>
    LET th == ret.args[2]
        m == ret.moisture.v
        tier == ret.rec.priority
    IN  /\ ret.rec.moisture = Some(m)
        /\ tier = "HIGH" <=> m < th.critical
        /\ tier = "MEDIUM" <=> (th.critical <= m /\ m < th.medium)
        /\ tier = "LOW" <=> (th.medium <= m /\ m < th.low)
        /\ tier = "OPTIMAL" <=> m >= th.low
        /\ (th = [critical |-> 25, medium |-> 35, low |-> 45] /\ m = 35) => tier = "LOW"

C2_Witness ==
  /\ ret.op = "get_recommendation"
  /\ ret.args[2] = [critical |-> 25, medium |-> 35, low |-> 45]
  /\ ret.rec.moisture = Some(35)
  /\ ret.rec.priority = "LOW"

\* C3: predict_days_until_critical returns None if and only if the site has
\* no visits, 0 whenever the moisture it predicted is <= the critical
\* threshold, and otherwise a non-negative integer.
C3_DaysContract ==
  ret.op = "predict_days_until_critical" =>
    /\ ret.days = None <=> Len(ret.args[1].visits) = 0
    /\ ~ret.days.some <=> Len(ret.args[1].visits) = 0
    /\ (ret.moisture.some /\ ret.moisture.v <= ret.args[2].critical) => ret.days = Some(0)
    /\ ret.days.some => ret.days.v >= 0

\* a single visit, the predicted moisture exactly at the critical threshold
C3_Witness ==
  /\ ret.op = "predict_days_until_critical"
  /\ Len(ret.args[1].visits) = 1
  /\ ret.moisture = Some(ret.args[2].critical)
  /\ ret.days = Some(0)

\* the result pair carries a fallback marker that is set
usedFallback(v) == "usedFallback" \in DOMAIN v /\ v.usedFallback

RecommendationTiers == {"NO DATA", "HIGH", "MEDIUM", "LOW", "OPTIMAL"}

\* C4 as stated: when the provider fails (timeout, connection error, non-200
\* status, malformed payload) get_site_weather does not raise, returns the
\* session's default snapshot and marks the result usedFallback = true.
C4_FallbackMarked ==
  (ret.op = "get_site_weather" /\ ret.resp \in SessionFail) =>
    /\ ~ret.raised
    /\ ret.value.weather = weather
    /\ usedFallback(ret.value)

\* C4 as amended: when the provider fails get_site_weather does not raise and
\* returns the session's default snapshot together with the station info,
\* with no fallback marker in the result; get_recommendation never raises
\* and always yields a recommendation.
C4_Fallback ==
  /\ (ret.op = "get_site_weather" /\ ret.resp \in SessionFail) =>
       /\ ~ret.raised
       /\ ret.src1 = "default"
       /\ ret.value.weather = weather
       /\ DOMAIN ret.value = {"weather", "station_info"}
       /\ ret.value.station_info =
            (IF ret.args[1] \in DOMAIN weather_stations
             THEN weather_stations[ret.args[1]] ELSE MelbourneStation)
  /\ ret.op = "get_recommendation" =>
       ~ret.raised /\ ret.rec.priority \in RecommendationTiers

\* a 200 response without the daily fields, after Refresh Weather replaced
\* the default snapshot
C4_Witness ==
  /\ ret.op = "get_site_weather"
  /\ ret.resp = Response("response", 200, NoBody)
  /\ weather # DefaultWeather
  /\ ret.value.weather = weather

Issued(c) == callers[c].pc = "request" \/ callers[c].fetched

\* C6: under concurrent callers at most one provider fetch is issued per
\* key and window.
C6_SingleFlight ==
  \A c1, c2 \in Callers :
    (Issued(c1) /\ Issued(c2) /\ callers[c1].key = callers[c2].key) => c1 = c2

C8_NoData ==
  ret.op = "get_recommendation" =>
    /\ ret.rec.priority = "NO DATA" <=> Len(ret.args[1].visits) = 0
    /\ ret.rec.priority = "NO DATA" =>
         /\ ret.rec.moisture = None
         /\ ret.rec.water = Nominal(ret.args[1])
         /\ ret.rec.msg.note = "none"

\* no visits while more than 10 mm of rain is forecast for the next 24 hours
C8_Witness ==
  /\ ret.op = "get_recommendation"
  /\ Len(ret.args[1].visits) = 0
  /\ ret.weather2.next_24h > 100
  /\ ret.rec.priority = "NO DATA"

\* positions, among the last five visits in stored order, whose moisture is
\* above that of the visit before
Rising(vs) ==
  { i \in (Max(1, Len(vs) - 4) + 1)..Len(vs) : vs[i].moisture > vs[i-1].moisture }

RECURSIVE DeltaSum(_, _)
DeltaSum(vs, S) ==
  IF S = {} THEN 0
  ELSE LET i == CHOOSE x \in S : TRUE
       IN  (vs[i].moisture - vs[i-1].moisture) + DeltaSum(vs, S \ {i})

\* C9: calculate_optimal_water returns the nominal volume when the site has
\* fewer than 3 visits or no consecutive pair among the last 5 visits rises;
\* otherwise, with a the average of the positive consecutive deltas, it
\* returns round(0.85 * nominal) if a < 5, round(1.10 * nominal) if a > 15,
\* and the nominal volume if 5 <= a <= 15.
C9_OptimalWater ==
  ret.op = "calculate_optimal_water" =>
    LET site == ret.args[1]
        vs == site.visits
        nominal == Nominal(site)
        k == Cardinality(Rising(vs))
        total == DeltaSum(vs, Rising(vs))
    IN  IF Len(vs) < 3 \/ k = 0 THEN ret.water = nominal
        ELSE IF total < 5 * k THEN Nearest(ret.water, 85 * nominal, 100)
        ELSE IF total > 15 * k THEN Nearest(ret.water, 110 * nominal, 100)
        ELSE ret.water = nominal

\* more than five visits, the oldest pair rising by more than 15 and outside
\* the last five, the average rise among the last five below 5: reduced
C9_Witness ==
  /\ ret.op = "calculate_optimal_water"
  /\ Len(ret.args[1].visits) = 6
  /\ ret.args[1].visits[2].moisture - ret.args[1].visits[1].moisture > 15
  /\ ret.water < Nominal(ret.args[1])

\* the moistures 20, 30, 45 on three consecutive days
ScenarioD(site) ==
  /\ Len(site.visits) = 3
  /\ [i \in 1..3 |-> site.visits[i].moisture] = <<20, 30, 45>>
  /\ \A i \in 2..3 : site.visits[i].date = site.visits[i-1].date + 1

\* C10 as stated: for the moisture sequence 20, 30, 45 on consecutive days
\* calculate_optimal_water returns the nominal volume scaled by 1.10.
C10_ScenarioScaled ==
  (ret.op = "calculate_optimal_water" /\ ScenarioD(ret.args[1])) =>
    /\ Nearest(ret.water, 110 * Nominal(ret.args[1]), 100)
    /\ ret.water > Nominal(ret.args[1])

\* C10 as amended: for the moisture sequence 20, 30, 45 on consecutive days
\* calculate_optimal_water returns the nominal volume unchanged (the average
\* rise, 12.5, is not above 15).
C10_ScenarioNominal ==
  (ret.op = "calculate_optimal_water" /\ ScenarioD(ret.args[1])) =>
    ret.water = Nominal(ret.args[1])

C10_Witness ==
  /\ ret.op = "calculate_optimal_water"
  /\ ScenarioD(ret.args[1])
  /\ Nominal(ret.args[1]) = 55
  /\ ret.water = 55

\* C15: in every reachable state the stored thresholds satisfy
\* critical < medium < low, each within 0..100, after loading saved data
\* (legacy conversion included) and after any Settings saves.
C15_ThresholdsAscending ==
  /\ Ascending(priority_thresholds)
  /\ \A k \in {"critical", "medium", "low"} : priority_thresholds[k] \in 0..100

\* C16: submitting the threshold form with values that are not strictly
\* ascending is rejected with an error and leaves the stored thresholds and
\* the saved file unchanged; a strictly ascending triple is stored exactly
\* as submitted.
C16_SubmitValidated ==
  [][ret'.op = "save_thresholds" =>
       LET critical == ret'.args[1]
           medium == ret'.args[2]
           low == ret'.args[3]
       IN  IF critical >= medium \/ medium >= low
           THEN /\ ~ret'.ok
                /\ priority_thresholds' = priority_thresholds
                /\ data_file' = data_file
           ELSE /\ ret'.ok
                /\ priority_thresholds' =
                     [critical |-> critical, medium |-> medium, low |-> low]
                /\ data_file'.exists
                /\ data_file'.priority_thresholds = priority_thresholds']_vars

\* a submission with critical = medium was refused, the legacy-loaded
\* thresholds and the legacy file still in place
C16_Witness ==
  /\ ret.op = "save_thresholds"
  /\ ret.args[1] = ret.args[2]
  /\ ret.args[2] < ret.args[3]
  /\ ~ret.ok
  /\ data_file.priority_thresholds = [critical |-> 25, low |-> 35]
  /\ priority_thresholds = [critical |-> 25, medium |-> 35, low |-> 45]

EngineOps ==
  {"predict_moisture", "predict_days_until_critical", "calculate_optimal_water",
   "get_recommendation"}

\* C17: predict_moisture, predict_days_until_critical,
\* calculate_optimal_water and get_recommendation leave the site records
\* (visit lists included) and the priority thresholds unchanged.
C17_EngineFrame ==
  [][ret'.op \in EngineOps =>
       sites' = sites /\ priority_thresholds' = priority_thresholds]_vars

\* calculate_optimal_water ran on the seeded three-visit site after the
\* Settings form had replaced the thresholds
C17_Witness ==
  /\ ret.op = "calculate_optimal_water"
  /\ Len(ret.args[1].visits) = 3
  /\ sites[ret.id] = ret.args[1]
  /\ data_file.exists
  /\ data_file.priority_thresholds = priority_thresholds
  /\ priority_thresholds = [critical |-> 0, medium |-> 30, low |-> 100]

\* the journalled call j came after call i, for another site with the same
\* station, in the same ten-minute window
SharesStation(i, j) ==
  /\ i < j
  /\ journal[i].site # journal[j].site
  /\ journal[i].station = journal[j].station
  /\ Window(journal[i].t) = Window(journal[j].t)

\* call i fetched successfully for the site of the later call j, in the
\* ten-minute clock window of call j
OwnEntry(i, j) ==
  /\ i < j
  /\ journal[i].site = journal[j].site
  /\ journal[i].src = "fetch"
  /\ Window(journal[i].t) = Window(journal[j].t)

StationsRequested == { journal[i].station : i \in DOMAIN journal }

LatestFetch(i, j) ==
  /\ i < j
  /\ journal[i].site = journal[j].site
  /\ journal[i].src = "fetch"
  /\ \A k \in DOMAIN journal :
       (i < k /\ k < j /\ journal[k].site = journal[j].site) => journal[k].src # "fetch"

StatedBaseline(soil) ==
  IF soil = "Clay Loam" THEN 40 ELSE IF soil = "Sandy Loam" THEN 25
  ELSE IF soil = "Loam" THEN 35 ELSE IF soil = "Clay" THEN 45
  ELSE IF soil = "Sand" THEN 15 ELSE 35

StatedDropRate2(soil) ==
  IF soil = "Clay Loam" THEN 4 ELSE IF soil = "Sandy Loam" THEN 8
  ELSE IF soil = "Loam" THEN 6 ELSE IF soil = "Clay" THEN 3
  ELSE IF soil = "Sand" THEN 10 ELSE 5

StatedMaturity(maturity) ==
  IF maturity = "Establishment" THEN -3 ELSE IF maturity = "Young" THEN -1
  ELSE IF maturity = "Mature" THEN 2 ELSE 0

Clamp(x) == IF x < 0 THEN 0 ELSE IF x > 100 THEN 100 ELSE x

\* whole days from a visit date to the instant t
ElapsedDays(date, t) == (t - date * MinutesPerDay) \div MinutesPerDay

\* Scenario A: Sand, a single visit at 30 dated five days before the call,
\* no rain behind or ahead
ScenarioA(site, sw, t) ==
  /\ site.soil_type = "Sand"
  /\ Len(site.visits) = 1
  /\ site.visits[1].moisture = 30
  /\ ElapsedDays(site.visits[1].date, t) = 5
  /\ sw.last_7d = 0 /\ sw.next_24h = 0

\* C11 as stated: in Scenario A predict_moisture returns 30 - 5*5 = 5 and
\* get_recommendation returns High under critical threshold 25.
C11_ScenarioA ==
  /\ (ret.op = "predict_moisture" /\ ScenarioA(ret.args[1], ret.weather, ret.t))
       => ret.moisture = Some(5)
  /\ (ret.op = "get_recommendation" /\ ScenarioA(ret.args[1], ret.weather, ret.t)
        /\ ret.args[2].critical = 25)
       => ret.rec.moisture = Some(5) /\ ret.rec.priority = "HIGH"

\* C11 as amended: in Scenario A predict_moisture returns 30 - 5*5 plus the
\* maturity adjustment (2 for Establishment, 4 for Young, 7 for Mature, 5
\* only for a maturity outside the table) and get_recommendation returns
\* High under critical threshold 25.
C11_ScenarioAWithMaturity ==
  /\ (ret.op = "predict_moisture" /\ ScenarioA(ret.args[1], ret.weather, ret.t))
       => ret.moisture = Some(5 + StatedMaturity(ret.args[1].maturity))
  /\ (ret.op = "get_recommendation" /\ ScenarioA(ret.args[1], ret.weather, ret.t)
        /\ ret.args[2].critical = 25)
       => /\ ret.rec.moisture = Some(5 + StatedMaturity(ret.args[1].maturity))
          /\ ret.rec.priority = "HIGH"

\* Scenario A on a site in Establishment: 2, High
C11_Witness ==
  /\ ret.op = "get_recommendation"
  /\ ScenarioA(ret.args[1], ret.weather, ret.t)
  /\ ret.args[1].maturity = "Establishment"
  /\ ret.rec.moisture = Some(2)
  /\ ret.rec.priority = "HIGH"

\* C12: for a site with no visits predict_moisture is the clamp to [0,100]
\* of round(baseline(soil) + 2*last_7d - 10 + bump), bump being 15 if
\* next_24h > 10, 8 if 5 < next_24h <= 10, else 0; Clay with no rain gives 35.
C12_NoVisitFormula ==
  (ret.op = "predict_moisture" /\ Len(ret.args[1].visits) = 0) =>
    LET sw == ret.weather
        bump == IF sw.next_24h > 100 THEN 15
                ELSE IF sw.next_24h > 50 /\ sw.next_24h <= 100 THEN 8 ELSE 0
        \* tenfold; 2 * last_7d is a whole number of fifths, never a half
        e10 == 10 * StatedBaseline(ret.args[1].soil_type) + 2 * sw.last_7d - 100
               + 10 * bump
        r == (2 * e10 + 10) \div 20
    IN  /\ Nearest(r, e10, 10)
        /\ ret.moisture = Some(Clamp(r))
        /\ (ret.args[1].soil_type = "Clay" /\ sw.last_7d = 0 /\ sw.next_24h = 0)
             => ret.moisture = Some(35)

\* Scenario B: Clay, no visits, no rain
C12_Witness ==
  /\ ret.op = "predict_moisture"
  /\ Len(ret.args[1].visits) = 0
  /\ ret.args[1].soil_type = "Clay"
  /\ ret.weather.last_7d = 0 /\ ret.weather.next_24h = 0
  /\ ret.src1 = "fetch"
  /\ ret.moisture = Some(35)

RECURSIVE MoistureSum(_, _)
MoistureSum(vs, S) ==
  IF S = {} THEN 0
  ELSE LET i == CHOOSE x \in S : TRUE
       IN  vs[i].moisture + MoistureSum(vs, S \ {i})

\* sixty times the unrounded prediction C13 states
Stated60(site, sw, t) ==
  LET vs == site.visits
      n == Len(vs)
      k == IF n < 5 THEN n ELSE 5
      mid == k \div 2
      first == (n - k + 1)..(n - k + mid)
      second == (n - k + mid + 1)..n
      trend60 == IF k < 2 THEN 0
                 ELSE (18 \div (k - mid)) * MoistureSum(vs, second)
                      - (18 \div mid) * MoistureSum(vs, first)
      lagged == IF sw.last_7d > 200 THEN 15 ELSE IF sw.last_7d > 100 THEN 8
                ELSE IF sw.last_7d > 50 THEN 4 ELSE 0
      forecast == IF sw.next_24h > 100 THEN 12 ELSE IF sw.next_24h > 50 THEN 6 ELSE 0
  IN  60 * (vs[n].moisture + lagged + forecast + StatedMaturity(site.maturity))
      - 30 * ElapsedDays(vs[n].date, t) * StatedDropRate2(site.soil_type)
      + trend60

\* C13: for a site with visits predict_moisture is the clamp to [0,100] of
\* the nearest integer to last moisture - elapsedDays*dropRate + 0.3*trend
\* + laggedRain + forecast + maturity, on inputs whose unrounded value is
\* not exactly halfway between two integers.
C13_VisitFormula ==
  (ret.op = "predict_moisture" /\ Len(ret.args[1].visits) >= 1) =>
    LET n60 == Stated60(ret.args[1], ret.weather, ret.t)
        r == (2 * n60 + 60) \div 120
    IN  n60 % 60 # 30 =>
          /\ Nearest(r, n60, 60)
          /\ ret.moisture = Some(Clamp(r))

\* more than five visits, both rain terms at work, a trend, no tie, and the
\* result inside the clamp
C13_Witness ==
  /\ ret.op = "predict_moisture"
  /\ Len(ret.args[1].visits) > 5
  /\ ret.weather.last_7d > 200 /\ ret.weather.next_24h > 100
  /\ Stated60(ret.args[1], ret.weather, ret.t) % 60 \notin {0, 30}
  /\ ret.moisture.v \in 1..99

\* the drops (prevMoisture - currMoisture)/daysBetween of the positions S,
\* summed as a fraction with positive denominator
RECURSIVE DropSum(_, _)
DropSum(vs, S) ==
  IF S = {} THEN [n |-> 0, d |-> 1]
  ELSE LET i == CHOOSE x \in S : TRUE
           gap == vs[i].date - vs[i-1].date
           sign == IF gap < 0 THEN -1 ELSE 1
           rest == DropSum(vs, S \ {i})
       IN  [n |-> sign * (vs[i-1].moisture - vs[i].moisture) * rest.d
                  + rest.n * sign * gap,
            d |-> sign * gap * rest.d]

\* days = max(0, round(gap / d)) with d the halved-on-rain average drop over
\* the positions S when positive, the static rate otherwise
StatedDays(site, critical, m, sw2, S, days) ==
  LET total == DropSum(site.visits, S)
      avg_n == total.n
      avg_d == total.d * Cardinality(S) * (IF sw2.next_7d > 100 THEN 2 ELSE 1)
  IN  IF Len(site.visits) >= 2 /\ S # {} /\ avg_n > 0
      THEN Nearest(days, (m - critical) * avg_d, avg_n)
      ELSE Nearest(days, (m - critical) * 2, StatedDropRate2(site.soil_type))

\* positions among the last five visits
LastFivePairs(vs) == (Max(1, Len(vs) - 4) + 1)..Len(vs)

Chronological(visits) ==
  \A i \in 2..Len(visits) : visits[i-1].date <= visits[i].date

\* the visit list vs goes on from the visit list us
Extends(vs, us) == Len(vs) >= Len(us) /\ SubSeq(vs, 1, Len(us)) = us

\* C21: the visit list of every site is in non-decreasing date order in
\* every reachable state, from the seeded data on and after any Add Visit
\* submissions with user-chosen dates, so the last element is the most recent
\* visit by date; existing visits are never reordered.
C21_Chronological ==
  /\ [](\A id \in DOMAIN sites :
          /\ Chronological(sites[id].visits)
          /\ \A i \in 1..Len(sites[id].visits) :
               sites[id].visits[i].date <= sites[id].visits[Len(sites[id].visits)].date)
  /\ [][\A id \in DOMAIN sites \cap DOMAIN sites' :
          Extends(sites'[id].visits, sites[id].visits)]_vars

\* the rows of a submission that carry a location label
Labelled(rows) == { i \in 1..Len(rows) : rows[i].location # "" }

\* the total of the readings stored in a visit
ReadingTotal(visit) ==
  MoistureSum(visit.moisture_readings, 1..Len(visit.moisture_readings))

\* the step is an Add Visit submission that appended exactly one visit to the
\* selected site
Appended(id, before, after) ==
  /\ Len(after[id].visits) = Len(before[id].visits) + 1
  /\ Extends(after[id].visits, before[id].visits)
  /\ \A other \in DOMAIN before \ {id} : after[other] = before[other]
  /\ DOMAIN after = DOMAIN before

\* C22 as stated: every visit appended through the Add Visit form has an
\* aggregate moisture equal to the arithmetic mean of the readings stored in
\* it, and a submission with no labelled reading appends no visit.
C22_MeanStored ==
  [][ret'.op = "add_visit" =>
       IF Labelled(ret'.args[2]) = {} THEN sites' = sites
       ELSE /\ Appended(ret'.id, sites, sites')
            /\ LET v == sites'[ret'.id].visits[Len(sites'[ret'.id].visits)]
               IN  v.moisture * Len(v.moisture_readings) = ReadingTotal(v)]_vars

\* C22 as amended: every visit appended through the Add Visit form has an
\* aggregate moisture equal to the arithmetic mean of the readings stored in
\* it rounded to the nearest whole number, a mean exactly halfway between two
\* whole numbers going to the even one; a submission with no labelled reading
\* appends no visit.
C22_RoundedMeanStored ==
  [][ret'.op = "add_visit" =>
       IF Labelled(ret'.args[2]) = {} THEN sites' = sites
       ELSE /\ Appended(ret'.id, sites, sites')
            /\ LET v == sites'[ret'.id].visits[Len(sites'[ret'.id].visits)]
                   n == Len(v.moisture_readings)
                   total == ReadingTotal(v)
               IN  /\ n = Cardinality(Labelled(ret'.args[2]))
                   /\ Nearest(v.moisture, total, n)
                   /\ (2 * total) % (2 * n) = n => v.moisture % 2 = 0]_vars

\* a visit with the readings 36 and 37 was appended and holds 36
C22_Witness ==
  /\ ret.op = "add_visit" /\ ret.ok
  /\ LET v == sites[ret.id].visits[Len(sites[ret.id].visits)]
     IN  /\ "moisture_readings" \in DOMAIN v
         /\ Len(v.moisture_readings) = 2
         /\ ReadingTotal(v) = 73
         /\ v.moisture = 36

\* the tier of a moisture value under the thresholds th
StatedTier(m, th) ==
  IF m < th.critical THEN "HIGH" ELSE IF m < th.medium THEN "MEDIUM"
  ELSE IF m < th.low THEN "LOW" ELSE "OPTIMAL"

\* C23: for a site with at least one visit the recommendation message ends
\* with the heavy-rain 'consider delaying' note exactly when next_24h > 10 mm,
\* with the 'reduce 30%' note exactly when 5 < next_24h <= 10, and with no
\* rain note otherwise; the tier returned is the one the moisture gives,
\* whatever the note.
C23_RainNote ==
  (ret.op = "get_recommendation" /\ Len(ret.args[1].visits) >= 1) =>
    LET rain == ret.weather2.next_24h
        note == ret.rec.msg.note
    IN  /\ note = "heavy_rain_delay" <=> rain > 100
        /\ note = "moderate_rain_reduce" <=> (rain > 50 /\ rain <= 100)
        /\ note = "none" <=> rain <= 50
        /\ note \in {"heavy_rain_delay", "moderate_rain_reduce", "none"}
        /\ ret.rec.moisture.some
        /\ ret.rec.priority = StatedTier(ret.rec.moisture.v, ret.args[2])

\* exactly 10.0 mm forecast on a site with visits: the 'reduce 30%' note
C23_Witness ==
  /\ ret.op = "get_recommendation"
  /\ Len(ret.args[1].visits) >= 1
  /\ ret.src2 = "cache"
  /\ ret.weather2.next_24h = 100
  /\ ret.rec.msg.note = "moderate_rain_reduce"
  /\ ret.rec.priority \in {"HIGH", "MEDIUM", "LOW", "OPTIMAL"}

\* the provider answered with status 200
Answered(resp) == resp.kind = "response" /\ resp.status_code = 200

\* the provider was called during the operation ret records
ProviderCalled(r) == r.resp.kind # "none"

\* C24: for the forecast lookups of the sidebar station panel and of the
\* site cards a cached entry is used without a provider call exactly when
\* less than 2 hours have passed since it was stored; otherwise the provider
\* is called and, on success, the entry and its timestamp are replaced
\* together; every timestamp key always has a matching cached entry.
C24_ForecastTTL ==
  /\ [](DOMAIN weather_cache_time \subseteq DOMAIN site_weather_forecast)
  /\ [][ret'.op \in {"sidebar_station", "site_card"} =>
          LET key == ret'.args[1]
              fresh == /\ key \in DOMAIN site_weather_forecast
                       /\ key \in DOMAIN weather_cache_time
                       /\ now - weather_cache_time[key] < 2 * 60
          IN  /\ ret'.src2 = "cache" <=> fresh
              /\ ProviderCalled(ret') <=> ~fresh
              /\ IF ~fresh /\ Answered(ret'.resp)
                 THEN /\ DOMAIN site_weather_forecast' = DOMAIN site_weather_forecast \cup {key}
                      /\ DOMAIN weather_cache_time' = DOMAIN weather_cache_time \cup {key}
                      /\ site_weather_forecast'[key] = ret'.resp.body
                      /\ weather_cache_time'[key] = now
                      /\ \A k \in DOMAIN site_weather_forecast \ {key} :
                           site_weather_forecast'[k] = site_weather_forecast[k]
                      /\ \A k \in DOMAIN weather_cache_time \ {key} :
                           weather_cache_time'[k] = weather_cache_time[k]
                 ELSE UNCHANGED <<site_weather_forecast, weather_cache_time>>]_vars

\* a site card served the forecast stored 118 minutes before
C24_Witness ==
  /\ ret.op = "site_card"
  /\ ret.src2 = "cache"
  /\ ~ProviderCalled(ret)
  /\ ret.args[1] \in DOMAIN weather_cache_time
  /\ now - weather_cache_time[ret.args[1]] = 118

\* n/d (d > 0) lies exactly halfway between two integers
Halfway(n, d) == (2 * n) % (2 * d) = d

\* the integers next to a halfway value n/d: the larger, and the even one
LargerNeighbour(n, d) == n \div d + 1
EvenNeighbour(n, d) == IF (n \div d) % 2 = 0 THEN n \div d ELSE n \div d + 1

\* The value the operation recorded in r hands to round(), as n/d, with the
\* function's own clamp named; rounds is FALSE where nothing is rounded.
\* The product nominal * 1.1 is taken as the double it is: above the half
\* (spill) wherever the excess of the double 1.1 over 11/10 survives the
\* multiplication.
Unrounded(r) ==
  LET site == r.args[1]
      vs == site.visits
      nominal == Nominal(site)
      none == [rounds |-> FALSE, n |-> 0, d |-> 1, spill |-> FALSE, clamp |-> "none"]
  IN  CASE r.op = "predict_moisture" ->
             IF Len(vs) >= 1
             THEN [rounds |-> TRUE, n |-> Stated60(site, r.weather, r.t), d |-> 60,
                   spill |-> FALSE, clamp |-> "percent"]
             ELSE [rounds |-> TRUE,
                   n |-> 10 * StatedBaseline(site.soil_type) + 2 * r.weather.last_7d - 100
                         + (IF r.weather.next_24h > 100 THEN 150
                            ELSE IF r.weather.next_24h > 50 THEN 80 ELSE 0),
                   d |-> 10, spill |-> FALSE, clamp |-> "percent"]
        [] r.op = "predict_days_until_critical" ->
             IF Len(vs) >= 1 /\ r.moisture.v > r.args[2].critical
             THEN LET S == { i \in LastFivePairs(vs) : vs[i].date - vs[i-1].date > 0 }
                      total == DropSum(vs, S)
                      avg_d == total.d * Cardinality(S)
                                 * (IF r.weather2.next_7d > 100 THEN 2 ELSE 1)
                      gap == r.moisture.v - r.args[2].critical
                  IN  IF Len(vs) >= 2 /\ S # {} /\ total.n > 0
                      THEN [rounds |-> TRUE, n |-> gap * avg_d, d |-> total.n,
                            spill |-> FALSE, clamp |-> "floor0"]
                      ELSE [rounds |-> TRUE, n |-> gap * 2,
                            d |-> StatedDropRate2(site.soil_type),
                            spill |-> FALSE, clamp |-> "floor0"]
             ELSE none
        [] r.op = "calculate_optimal_water" ->
             LET k == Cardinality(Rising(vs))
                 total == DeltaSum(vs, Rising(vs))
             IN  IF Len(vs) < 3 \/ k = 0 THEN none
                 ELSE IF total < 5 * k
                 THEN [rounds |-> TRUE, n |-> 85 * nominal, d |-> 100,
                       spill |-> FALSE, clamp |-> "none"]
                 ELSE IF total > 15 * k
                 THEN [rounds |-> TRUE, n |-> 110 * nominal, d |-> 100,
                       spill |-> 8 * nominal > 10 * Pow2Floor(11 * nominal, 10, 1),
                       clamp |-> "none"]
                 ELSE none
        [] OTHER -> none

\* what the operation recorded in r returned
Returned(r) ==
  CASE r.op = "predict_moisture" -> r.moisture.v
    [] r.op = "predict_days_until_critical" -> r.days.v
    [] OTHER -> r.water

Clamped(x, clamp) ==
  IF clamp = "percent" THEN Clamp(x)
  ELSE IF clamp = "floor0" THEN (IF x < 0 THEN 0 ELSE x)
  ELSE x

\* C25 as stated: rounding is round-half-up everywhere the engine rounds:
\* when the unrounded predicted moisture, days-until-critical or scaled water
\* volume is exactly halfway between two integers, predict_moisture,
\* predict_days_until_critical and calculate_optimal_water return the larger
\* integer.
C25_HalfUp ==
  LET u == Unrounded(ret)
  IN  (u.rounds /\ Halfway(u.n, u.d)) =>
        Returned(ret) = Clamped(LargerNeighbour(u.n, u.d), u.clamp)

\* C25 as amended: rounding is Python's round(), round-half-to-even, on the
\* floating-point value: when the value handed to round() is exactly halfway
\* between two integers, predict_moisture, predict_days_until_critical and
\* calculate_optimal_water return the even one of the two (within the
\* function's clamp).
C25_HalfEven ==
  LET u == Unrounded(ret)
  IN  (u.rounds /\ Halfway(u.n, u.d) /\ ~u.spill) =>
        Returned(ret) = Clamped(EvenNeighbour(u.n, u.d), u.clamp)

\* 38.5 % predicted and 38 returned
C25_Witness ==
  /\ ret.op = "predict_moisture"
  /\ Len(ret.args[1].visits) = 1
  /\ Stated60(ret.args[1], ret.weather, ret.t) = 60 * 38 + 30
  /\ ret.moisture = Some(38)

\* every site of before is in after with the same record and visits
Kept(before, after) ==
  \A id \in DOMAIN before : id \in DOMAIN after /\ after[id] = before[id]

\* the rows of a sheet that name a site
NamedRows(rows) == { i \in 1..Len(rows) : rows[i] # "" }

\* C26: adding a site (Add Site form or spreadsheet import) never overwrites
\* or removes an existing site: after any sequence of additions and
\* deletions, each addition increases the number of sites by exactly one and
\* every site that existed keeps its record and visit history.
C26_AdditionsKeepSites ==
  [][/\ (ret'.op = "add_site" /\ ret'.ok) =>
          /\ Cardinality(DOMAIN sites') = Cardinality(DOMAIN sites) + 1
          /\ Kept(sites, sites')
     /\ ret'.op = "import_sites" =>
          /\ Cardinality(DOMAIN sites') =
               Cardinality(DOMAIN sites) + Cardinality(NamedRows(ret'.args[1]))
          /\ Kept(sites, sites')]_vars

\* C30: whenever a selected site id is set (the details view is open) it
\* names an existing site: no sequence of View Details, Delete site, Import
\* Data or Clear All Data leaves the details view looking up a site that is
\* no longer there.
C30_SelectedExists ==
  /\ selected_site # NoSelection => selected_site \in DOMAIN sites
  /\ ret.op = "site_details" => ~ret.raised

\* C27: within one get_recommendation call the predicted moisture (hence
\* the tier) and the rain note come from the same weather snapshot, although
\* the weather is read twice (inside predict_moisture, then in
\* get_recommendation itself) and the provider's answer may differ between
\* the two reads.
C27_OneSnapshot ==
  (ret.op = "get_recommendation" /\ Len(ret.args[1].visits) >= 1) =>
    /\ ret.weather2 = ret.weather
    /\ ret.rec.msg.note = "heavy_rain_delay" <=> ret.weather.next_24h > 100
    /\ ret.rec.msg.note = "moderate_rain_reduce" <=>
         (ret.weather.next_24h > 50 /\ ret.weather.next_24h <= 100)

\* the provider did not deliver a forecast: no response, a status other than
\* 200, or a payload without the fields read
Failed(resp) ==
  \/ ~Answered(resp)
  \/ ~resp.body.has_daily
  \/ ~resp.body.has_current
  \/ (Len(resp.body.precipitation_sum) > 7 /\ resp.body.precipitation_sum[8] = Null)

\* C28: a failed provider fetch changes no weather state: a failing
\* get_site_weather leaves the weather cache and the default snapshot as they
\* were (nothing is cached for the failure, so the next get for that site
\* calls the provider again), and a failing update_weather leaves the default
\* snapshot as it was and returns (False, message).
C28_FailureChangesNothing ==
  [][now' = now =>
       /\ (ret'.op = "get_site_weather" /\ ProviderCalled(ret') /\ Failed(ret'.resp)) =>
            /\ site_weather' = site_weather
            /\ weather' = weather
            /\ ret'.value.weather = weather
       /\ (ret.op = "get_site_weather" /\ ProviderCalled(ret) /\ Failed(ret.resp)
             /\ ret'.op = "get_site_weather" /\ ret'.id = ret.id) =>
            ProviderCalled(ret')
       /\ (ret'.op = "refresh_weather" /\ Failed(ret'.resp)) =>
            /\ weather' = weather
            /\ ~ret'.ok]_vars

\* a get answered with status 500 while another site's snapshot is cached:
\* the default snapshot came back and nothing was stored for the site
C28_Witness ==
  /\ ret.op = "get_site_weather"
  /\ ret.resp.kind = "response" /\ ret.resp.status_code = 500
  /\ ret.value.weather = weather
  /\ site_weather # EmptyMap
  /\ cache_key(sites[ret.id].name, ret.t) \notin DOMAIN site_weather

\* C29: after the Refresh Weather action both weather caches (snapshots and
\* timestamps) are empty whether or not update_weather succeeded, so the next
\* weather read of any site calls the provider and serves nothing fetched
\* before the refresh; the default snapshot is replaced only if update_weather
\* succeeded.
C29_RefreshEmptiesCaches ==
  [][/\ ret'.op = "refresh_weather" =>
          /\ site_weather' = EmptyMap
          /\ site_weather_forecast' = EmptyMap
          /\ weather_cache_time' = EmptyMap
          /\ ~ret'.ok => weather' = weather
          /\ ret'.ok => weather' = FetchOutcome(ret'.resp).data
     /\ (ret.op = "refresh_weather" /\ ret'.op = "site_card") =>
          /\ ret'.src1 # "cache"
          /\ ret'.src2 # "cache"
     /\ (ret.op = "refresh_weather" /\ ret'.op = "sidebar_station") =>
          ret'.src2 # "cache"]_vars

====
